---- MODULE Spec2Model ----
(***************************************************************************)
(* Blogia: the client-side synchronisation layer.                          *)
(*                                                                         *)
(* One module, several specifications, one per subsystem:                  *)
(*   SpecRate     the fixed-window rate limiter (lib/security.ts)          *)
(*   SpecTimeout  withTimeout (lib/supabase.ts)                            *)
(*   SpecAuth     the auth containers (AuthContext.tsx; App + authSlice)   *)
(*   SpecService  one PostService call after another                       *)
(*   SpecLikes    like and bookmark toggles of one (post, user) pair       *)
(*   SpecPosts    createPost / updatePost and the post editor              *)
(*   SpecLogin    login and signup of the auth containers                  *)
(* Every specification shares the variables below; a subsystem that a      *)
(* specification does not exercise stays in its initial state.             *)
(***************************************************************************)
EXTENDS Integers, Sequences, FiniteSets, TLC

VARIABLES
  \* ---- rate limiter (lib/security.ts) ----
  now,             \* Date.now(), in milliseconds
  rateLimitStore,  \* Map<string, {count, resetTime}>; NoRecord = key absent
  rlLast,          \* what the latest checkRateLimit call returned
  winStart,        \* history: when the identifier's current window was opened
  winCalls         \* history: calls made to the identifier in that window

rlVars == <<now, rateLimitStore, rlLast, winStart, winCalls>>

VARIABLES
  \* ---- withTimeout (lib/supabase.ts) ----
  wtArgs,          \* the arguments of the call in progress, NoArgs when none
  wtOp,            \* the promise passed in: pending, resolved or rejected
  wtTimer,         \* the setTimeout: "unset", "armed" or "fired"
  wtResult,        \* the promise withTimeout returned
  wtFirst,         \* history: which of the two settled first
  wtSettles        \* history: how often the returned promise changed state

wtVars == <<wtArgs, wtOp, wtTimer, wtResult, wtFirst, wtSettles>>

VARIABLES
  \* ---- configuration (lib/supabase.ts) ----
  configured,      \* isSupabaseConfigured
  placeholderCalls \* history: backend calls issued while not configured

cfgVars == <<configured, placeholderCalls>>

VARIABLES
  \* ---- auth container (contexts/AuthContext.tsx; App.tsx + authSlice.ts) ----
  impl,            \* "context": AuthProvider; "redux": App + authSlice
  lifecycle,       \* "created", "mounted" (isMounted), "unmounted"
  user,            \* the local user, NoUser when null
  isLoading,       \* the auth loading flag
  authError,       \* authSlice state.error
  boot,            \* initializeAuth: where it is and the session user it maps
  failsafe,        \* App's 5 s timer: "unset", "armed", "fired", "cleared"
  events,          \* the onAuthStateChange callbacks started so far
  logoutPc,        \* logout: "idle", "signOut", "done"
  signedOut        \* history: a sign-out was handled and no sign-in came since

authVars == <<impl, lifecycle, user, isLoading, authError, boot, failsafe,
              events, logoutPc, signedOut>>

VARIABLES
  \* ---- PostService (lib/postService.ts, both generations) ----
  svcImpl,         \* "secured": checks, timeouts, handleError; "legacy": none
  call             \* the PostService call in progress

svcVars == <<svcImpl, call>>

VARIABLES
  \* ---- likes and bookmarks of one (post, user) pair ----
  db,              \* rows of the pair in likes and bookmarks; other users' likes
  page,            \* BlogFeed / PostDetailPage state: isLiked, likeCount, isBookmarked
  storeLikeCount,  \* postsSlice: posts[].likeCount, Unset when undefined
  toggles          \* the toggle handlers and thunks in flight

likeVars == <<db, page, storeLikeCount, toggles>>

VARIABLES
  \* ---- posts and the post editor (PostService, PostStore, PostEditor.tsx) ----
  postImpl,        \* "service": PostService and its table; "store": PostStore
  posts,           \* the stored posts by id, NoPost where there is none
  editor,          \* PostEditor: route id, state of loadPost, the fields
  lastSave         \* history: the editor's save, when nothing ran after it

postVars == <<postImpl, posts, editor, lastSave>>

VARIABLES
  \* ---- login and signup (AuthContext.tsx; authSlice.ts) ----
  authCall,        \* the login / signup call: its stage, answers and result
  authCalls,       \* how many login / signup calls were made
  attempts         \* history: calls that reached checkRateLimit, by kind and address

loginVars == <<authCall, authCalls, attempts>>

VARIABLES
  \* ---- handleError (lib/errorHandler.ts) ----
  raised,          \* the value caught and the context noun passed along
  appError         \* what handleError made of it, NotHandled before

errVars == <<raised, appError>>

VARIABLES
  \* ---- the limiter that is never cleaned up (comparison for cleanup) ----
  plainStore,      \* the records checkRateLimit alone would hold
  plainLast        \* what it would have answered to the last call

sweepVars == <<plainStore, plainLast>>

VARIABLES
  \* ---- the posts slice of the Redux store and the post page ----
  slice,           \* posts, userPosts, currentPost, bookmarks, comments, isLoading, error
  view,            \* PostDetailPage: the post shown and isLoading
  thunks,          \* the thunks and page loads in flight
  dispatches,      \* how many have been started
  lastAction,      \* history: the last lifecycle action the store received
  latest           \* history: per kind of load, the id asked for last and its outcome

sliceVars == <<slice, view, thunks, dispatches, lastAction, latest>>

VARIABLES
  \* ---- like and comment shown of PostDetailPage and BlogFeed ----
  shown,           \* the component state: isLiked, likeCount, comments, commentCount
  table            \* the likes and comments rows of the post in the backend

countVars == <<shown, table>>

VARIABLES
  \* ---- PostEditor: saves in flight and the publish modal ----
  flow,            \* route, isSaving, showPublishModal, publishStep, toast, counters
  saves            \* the handleSave invocations under way

flowVars == <<flow, saves>>

vars == <<rlVars, wtVars, cfgVars, authVars, svcVars, likeVars, postVars,
          loginVars, errVars, sweepVars, sliceVars, countVars, flowVars>>

(***************************************************************************)
(* Rate limiter                                                            *)
(***************************************************************************)

RATE_LIMIT_WINDOW_MS == 60000

RATE_LIMIT_MAX_REQUESTS == 30

\* How many windows of clock readings the model offers.
MaxWindows == 2

\* How many calls one identifier may make within one window.
MaxCallsPerWindow == 32

Identifiers == {"like-u1", "comment-u1"}

\* Every key the application passes to checkRateLimit.
RateKeys ==
  Identifiers \cup {"upload", "create-post-u1", "bookmark-u1",
                    "login-a@x.io", "login-b@x.io", "signup"}

NoRecord == [count |-> 0, resetTime |-> -1]

NoCall == [id |-> "none", allowed |-> TRUE, retryAfter |-> -1, fresh |-> FALSE]

\* The readings Date.now() takes: around the start, the last half second and
\* the exact end of every window.
Instants ==
  { k * RATE_LIMIT_WINDOW_MS + d :
      k \in 0..MaxWindows, d \in {0, 500, RATE_LIMIT_WINDOW_MS - 500} }

\* Math.ceil(a / b) for a >= 0, b > 0
Ceil(a, b) == (a + b - 1) \div b

HasRecord(id) == rateLimitStore[id] # NoRecord

\* if (!record || now > record.resetTime)
WindowElapsed(id) == ~HasRecord(id) \/ now > rateLimitStore[id].resetTime

\* The same test letting one more call through
LimitReachedLate(id) == rateLimitStore[id].count > RATE_LIMIT_MAX_REQUESTS

\* if (record.count >= SecurityConfig.RATE_LIMIT_MAX_REQUESTS)
LimitReached(id) == rateLimitStore[id].count >= RATE_LIMIT_MAX_REQUESTS

\* retryAfter: Math.ceil((record.resetTime - now) / 1000)
RetryAfter(id) == Ceil(rateLimitStore[id].resetTime - now, 1000)

\* The store after checkRateLimit(id)
StoreAfterCheck(id) ==
  IF WindowElapsed(id)
    THEN [rateLimitStore EXCEPT
            ![id] = [count |-> 1, resetTime |-> now + RATE_LIMIT_WINDOW_MS]]
  ELSE IF LimitReached(id)
    THEN rateLimitStore
  ELSE [rateLimitStore EXCEPT ![id].count = @ + 1]

\* What checkRateLimit(id) returns
CheckResult(id) ==
  IF WindowElapsed(id) THEN [allowed |-> TRUE, retryAfter |-> -1]
  ELSE IF LimitReached(id) THEN [allowed |-> FALSE, retryAfter |-> RetryAfter(id)]
  ELSE [allowed |-> TRUE, retryAfter |-> -1]

\* The same three branches of checkRateLimit on the store that no cleanup
\* ever touches.
PlainElapsed(id) ==
  plainStore[id] = NoRecord \/ now > plainStore[id].resetTime

PlainAfterCheck(id) ==
  IF PlainElapsed(id)
    THEN [plainStore EXCEPT
            ![id] = [count |-> 1, resetTime |-> now + RATE_LIMIT_WINDOW_MS]]
  ELSE IF plainStore[id].count >= RATE_LIMIT_MAX_REQUESTS
    THEN plainStore
  ELSE [plainStore EXCEPT ![id].count = @ + 1]

\* Its answer; swept tells that cleanup had removed the record this call
\* would otherwise have found.
PlainResult(id) ==
  [allowed |-> PlainElapsed(id)
                 \/ plainStore[id].count < RATE_LIMIT_MAX_REQUESTS,
   retryAfter |-> IF PlainElapsed(id)
                       \/ plainStore[id].count < RATE_LIMIT_MAX_REQUESTS
                    THEN -1
                    ELSE Ceil(plainStore[id].resetTime - now, 1000),
   swept |-> ~HasRecord(id) /\ plainStore[id] # NoRecord]

\* if (now > value.resetTime), with the boundary taken one instant early
ExpiredEarly(id) == HasRecord(id) /\ now >= rateLimitStore[id].resetTime

\* if (now > value.resetTime)
Expired(id) == HasRecord(id) /\ now > rateLimitStore[id].resetTime

\* cleanupRateLimitStore(): every expired record is deleted.
cleanupRateLimitStore ==
  /\ rateLimitStore' =
       [id \in RateKeys |-> IF Expired(id) THEN NoRecord ELSE rateLimitStore[id]]
  /\ UNCHANGED <<now, rlLast, winStart, winCalls>>
  /\ UNCHANGED <<wtVars, cfgVars, authVars, svcVars, likeVars, postVars, loginVars, errVars, sweepVars, sliceVars, countVars, flowVars>>

\* History: the window of the claim. A window opens with the first call and
\* with the first call made after the previous window has elapsed.
HistElapsed(id) ==
  winCalls[id] = 0 \/ now > winStart[id] + RATE_LIMIT_WINDOW_MS

checkRateLimit(id) ==
  /\ HistElapsed(id) \/ winCalls[id] < MaxCallsPerWindow
  /\ rateLimitStore' = StoreAfterCheck(id)
  /\ rlLast' = [id |-> id,
                allowed |-> CheckResult(id).allowed,
                retryAfter |-> CheckResult(id).retryAfter,
                fresh |-> HistElapsed(id)]
  /\ winStart' = IF HistElapsed(id) THEN [winStart EXCEPT ![id] = now] ELSE winStart
  /\ winCalls' = IF HistElapsed(id) THEN [winCalls EXCEPT ![id] = 1]
                 ELSE [winCalls EXCEPT ![id] = @ + 1]
  /\ plainStore' = PlainAfterCheck(id)
  /\ plainLast' = PlainResult(id)
  /\ UNCHANGED now
  /\ UNCHANGED <<wtVars, cfgVars, authVars, svcVars, likeVars, postVars, loginVars, errVars, sliceVars, countVars, flowVars>>

\* Time passes between two calls.
Tick(t) ==
  /\ t > now
  /\ now' = t
  /\ UNCHANGED <<rateLimitStore, rlLast, winStart, winCalls>>
  /\ UNCHANGED <<wtVars, cfgVars, authVars, svcVars, likeVars, postVars, loginVars, errVars, sweepVars, sliceVars, countVars, flowVars>>

RateInit ==
  /\ now = 0
  /\ rateLimitStore = [id \in RateKeys |-> NoRecord]
  /\ rlLast = NoCall
  /\ winStart = [id \in RateKeys |-> 0]
  /\ winCalls = [id \in RateKeys |-> 0]

RateNext ==
  \/ \E id \in Identifiers : checkRateLimit(id)
  \/ \E t \in Instants : Tick(t)

\* The identifier whose calls are followed while the timer of
\* cleanupRateLimitStore goes off in between.
SweepCallers == {"like-u1"}

SweepNext ==
  \/ \E id \in SweepCallers : checkRateLimit(id)
  \/ \E t \in Instants : Tick(t)
  \/ cleanupRateLimitStore

SweepIdle ==
  /\ plainStore = rateLimitStore
  /\ plainLast = [allowed |-> TRUE, retryAfter |-> -1, swept |-> FALSE]

(***************************************************************************)
(* withTimeout                                                             *)
(***************************************************************************)

\* timeoutMs: number = 10000
DEFAULT_TIMEOUT_MS == 10000

\* An argument left out at the call: the label as a string, the timeout as -1.
Undefined == "undefined"

\* What a promise settles with: a value or an error of the operation (kind),
\* or the timeout error, whose message is made of the label and the timeout.
Payload(kind) == [kind |-> kind, operation |-> "none", timeoutMs |-> 0]

Pending == [state |-> "pending", payload |-> Payload("none")]

Resolved(v) == [state |-> "resolved", payload |-> v]

Rejected(e) == [state |-> "rejected", payload |-> e]

NoArgs == [label |-> "none", timeoutMs |-> 0]

Labels == {"Login", "Add like", Undefined}

Timeouts == {3000, 15000, -1}

OpValues == {"row", "empty"}

OpErrors == {"PGRST116", "fetch failed"}

\* Default parameter values: operation = 'Operation', timeoutMs = 10000
EffectiveLabel(a) == IF a.label = Undefined THEN "Operation" ELSE a.label

EffectiveMs(a) == IF a.timeoutMs = -1 THEN DEFAULT_TIMEOUT_MS ELSE a.timeoutMs

\* new Error(`${operation} timed out after ${timeoutMs}ms`)
TimeoutError(a) ==
  [kind |-> "timed out after",
   operation |-> EffectiveLabel(a), timeoutMs |-> EffectiveMs(a)]

\* A race that lets a later settlement overwrite the first.
RaceLastWins(promise, settlement) == settlement

\* Promise.race: the returned promise takes the first settlement it is given
\* and ignores every later one.
Race(promise, settlement) ==
  IF promise.state = "pending" THEN settlement ELSE promise

Settled(before, after) == IF before # after THEN 1 ELSE 0

\* withTimeout(promiseOrThenable, timeoutMs, operation): arms the timer and
\* returns the race.
withTimeout(label, ms) ==
  /\ wtArgs = NoArgs
  /\ wtArgs' = [label |-> label, timeoutMs |-> ms]
  /\ wtOp' = Pending
  /\ wtTimer' = "armed"
  /\ wtResult' = Pending
  /\ wtFirst' = "none"
  /\ wtSettles' = 0
  /\ UNCHANGED <<rlVars, cfgVars, authVars, svcVars, likeVars, postVars, loginVars, errVars, sweepVars, sliceVars, countVars, flowVars>>

\* The operation resolves or rejects (before or after the timer).
OpSettles(settlement) ==
  /\ wtArgs # NoArgs
  /\ wtOp.state = "pending"
  /\ wtOp' = settlement
  /\ wtResult' = Race(wtResult, settlement)
  /\ wtFirst' = IF wtFirst = "none" THEN "op" ELSE wtFirst
  /\ wtSettles' = wtSettles + Settled(wtResult, wtResult')
  /\ UNCHANGED <<wtArgs, wtTimer>>
  /\ UNCHANGED <<rlVars, cfgVars, authVars, svcVars, likeVars, postVars, loginVars, errVars, sweepVars, sliceVars, countVars, flowVars>>

\* The setTimeout callback runs: reject(new Error(...)). The timer is never
\* cleared, so it also runs after the operation has settled.
TimerFires ==
  /\ wtTimer = "armed"
  /\ wtTimer' = "fired"
  /\ wtResult' = Race(wtResult, Rejected(TimeoutError(wtArgs)))
  /\ wtFirst' = IF wtFirst = "none" THEN "timer" ELSE wtFirst
  /\ wtSettles' = wtSettles + Settled(wtResult, wtResult')
  /\ UNCHANGED <<wtArgs, wtOp>>
  /\ UNCHANGED <<rlVars, cfgVars, authVars, svcVars, likeVars, postVars, loginVars, errVars, sweepVars, sliceVars, countVars, flowVars>>

\* The caller has its answer and the timer is spent: the next call may start.
CallOver ==
  /\ wtTimer = "fired"
  /\ wtArgs' = NoArgs
  /\ wtOp' = Pending
  /\ wtTimer' = "unset"
  /\ wtResult' = Pending
  /\ wtFirst' = "none"
  /\ wtSettles' = 0
  /\ UNCHANGED <<rlVars, cfgVars, authVars, svcVars, likeVars, postVars, loginVars, errVars, sweepVars, sliceVars, countVars, flowVars>>

TimeoutIdle ==
  /\ wtArgs = NoArgs
  /\ wtOp = Pending
  /\ wtTimer = "unset"
  /\ wtResult = Pending
  /\ wtFirst = "none"
  /\ wtSettles = 0

TimeoutNext ==
  \/ \E label \in Labels, ms \in Timeouts : withTimeout(label, ms)
  \/ \E v \in OpValues : OpSettles(Resolved(Payload(v)))
  \/ \E e \in OpErrors : OpSettles(Rejected(Payload(e)))
  \/ TimerFires
  \/ CallOver

(***************************************************************************)
(* Auth container: AuthProvider (contexts/AuthContext.tsx) and the Redux   *)
(* one (App.tsx with store/slices/authSlice.ts)                            *)
(***************************************************************************)

\* How many auth-state notifications the backend sends in one run.
MaxEvents == 3

Users == {"u1", "u2"}

None == "none"

NoUser == [id |-> None, name |-> None]

Slots == 1..MaxEvents

\* What the profiles query of mapSessionToUser can answer: a row, no row, an
\* error object, or a rejected promise.
ProfileOutcomes == {"row", "norow", "error", "reject"}

\* What getSession / signOut can answer: a result, an error object in the
\* result, or a rejected promise.
CallOutcomes == {"ok", "error", "reject"}

\* (event, session user) pairs the backend notifies.
Notifications ==
  ({"SIGNED_IN", "TOKEN_REFRESHED", "INITIAL_SESSION"} \X Users)
    \cup ({"SIGNED_OUT", "INITIAL_SESSION"} \X {None})

\* mapSessionToUser: id (and email) from the session; name and avatar from
\* the profile row when the query answered one, the defaults otherwise
\* (no row, error, rejection, timeout).
MapSessionToUser(sessionUser, outcome) ==
  [id |-> sessionUser, name |-> IF outcome = "row" THEN "profile" ELSE "default"]

\* A backend call goes out; it is recorded when the client is the placeholder.
Issued(endpoint) ==
  IF configured THEN placeholderCalls ELSE placeholderCalls \cup {endpoint}

\* AuthContext's mapSessionToUser returns the default user without a query
\* when the backend is not configured; authSlice's and App's always query.
ProfileQueried == impl = "redux" \/ configured

\* getSession awaited bare in AuthContext too.
SessionTimerNever == FALSE

\* AuthContext wraps getSession in withTimeout(10000); authSlice awaits it bare.
SessionTimerArmed == impl = "context"

\* useEffect body: initializeAuth() starts, App arms the failsafe timer, the
\* listener is subscribed.
Mount ==
  /\ lifecycle = "created"
  /\ lifecycle' = "mounted"
  /\ IF impl = "context"
       THEN /\ isLoading' = IF configured THEN isLoading ELSE FALSE
            /\ boot' = [boot EXCEPT !.pc = IF configured THEN "getSession" ELSE "done"]
            /\ UNCHANGED <<user, authError, failsafe>>
       ELSE \* initializeAuth.pending, then fulfilled(null) when not configured
            /\ isLoading' = configured
            /\ boot' = [boot EXCEPT !.pc = IF configured THEN "getSession" ELSE "done"]
            /\ user' = IF configured THEN user ELSE NoUser
            /\ authError' = IF configured THEN authError ELSE None
            /\ failsafe' = "armed"
  /\ UNCHANGED <<impl, events, logoutPc, signedOut>>
  /\ UNCHANGED <<rlVars, wtVars, cfgVars, svcVars, likeVars, postVars, loginVars, errVars, sweepVars, sliceVars, countVars, flowVars>>

\* supabase.auth.getSession() answers.
BootSessionSettles(outcome, sessionUser) ==
  /\ boot.pc = "getSession"
  /\ outcome = "reject" => sessionUser = None
  /\ IF impl = "context"
       THEN /\ boot' = IF outcome # "reject" /\ lifecycle = "mounted" /\ sessionUser # None
                         THEN [pc |-> "profile", sessionUser |-> sessionUser]
                         ELSE [boot EXCEPT !.pc = "done"]
            /\ isLoading' = IF lifecycle = "mounted" /\ (outcome = "reject" \/ sessionUser = None)
                              THEN FALSE ELSE isLoading
            /\ UNCHANGED <<user, authError>>
       ELSE /\ boot' = IF outcome # "reject" /\ sessionUser # None
                         THEN [pc |-> "profile", sessionUser |-> sessionUser]
                         ELSE [boot EXCEPT !.pc = "done"]
            \* fulfilled(null); or rejected, then setLoading(false) in the catch
            /\ isLoading' = IF outcome = "reject" \/ sessionUser = None THEN FALSE ELSE isLoading
            /\ user' = IF outcome # "reject" /\ sessionUser = None THEN NoUser ELSE user
            /\ authError' = IF outcome = "reject" THEN "rejected"
                             ELSE IF sessionUser = None THEN None ELSE authError
  /\ UNCHANGED <<impl, lifecycle, failsafe, events, logoutPc, signedOut>>
  /\ UNCHANGED <<rlVars, wtVars, cfgVars, svcVars, likeVars, postVars, loginVars, errVars, sweepVars, sliceVars, countVars, flowVars>>

\* AuthContext: the 10 s timer of withTimeout(getSession) fires first; the
\* catch block clears loading and the late answer is dropped.
BootSessionTimeout ==
  /\ boot.pc = "getSession"
  /\ SessionTimerArmed
  /\ boot' = [boot EXCEPT !.pc = "done"]
  /\ isLoading' = IF lifecycle = "mounted" THEN FALSE ELSE isLoading
  /\ UNCHANGED <<impl, lifecycle, user, authError, failsafe, events, logoutPc, signedOut>>
  /\ UNCHANGED <<rlVars, wtVars, cfgVars, svcVars, likeVars, postVars, loginVars, errVars, sweepVars, sliceVars, countVars, flowVars>>

\* The continuation of initializeAuth after `await mapSessionToUser(...)`:
\* setUser(appUser); setIsLoading(false) / initializeAuth.fulfilled.
BootMapped(appUser) ==
  /\ boot' = [boot EXCEPT !.pc = "done"]
  /\ user' = appUser
  /\ isLoading' = FALSE
  /\ authError' = IF impl = "redux" THEN None ELSE authError
  /\ UNCHANGED <<impl, lifecycle, failsafe, events, logoutPc, signedOut>>
  /\ UNCHANGED <<rlVars, wtVars, cfgVars, svcVars, likeVars, postVars, loginVars, errVars, sweepVars, sliceVars, countVars, flowVars>>

\* The profiles query of the bootstrap answers.
BootProfileSettles(outcome) ==
  /\ boot.pc = "profile"
  /\ BootMapped(MapSessionToUser(boot.sessionUser, outcome))

\* The profile timer (3 s / 2 s) fires first.
BootProfileTimeout ==
  /\ boot.pc = "profile"
  /\ BootMapped(MapSessionToUser(boot.sessionUser, "timeout"))

\* App: setTimeout(() => dispatch(setLoading(false)), 5000)
Failsafe ==
  /\ failsafe = "armed"
  /\ failsafe' = "fired"
  /\ isLoading' = FALSE
  /\ UNCHANGED <<impl, lifecycle, user, authError, boot, events, logoutPc, signedOut>>
  /\ UNCHANGED <<rlVars, wtVars, cfgVars, svcVars, likeVars, postVars, loginVars, errVars, sweepVars, sliceVars, countVars, flowVars>>

\* The effect's cleanup: isMounted = false; clearTimeout; unsubscribe.
Unmount ==
  /\ lifecycle = "mounted"
  /\ lifecycle' = "unmounted"
  /\ failsafe' = IF failsafe = "armed" THEN "cleared" ELSE failsafe
  /\ UNCHANGED <<impl, user, isLoading, authError, boot, events, logoutPc, signedOut>>
  /\ UNCHANGED <<rlVars, wtVars, cfgVars, svcVars, likeVars, postVars, loginVars, errVars, sweepVars, sliceVars, countVars, flowVars>>

FreeSlot(i) ==
  /\ events[i].pc = "unused"
  /\ \A j \in Slots : j < i => events[j].pc # "unused"

\* Whether the handler resolves the profile for this notification.
\* AuthContext: if (session?.user). App: SIGNED_IN or TOKEN_REFRESHED with a user.
MapsProfile(kind, sessionUser) ==
  /\ sessionUser # None
  /\ impl = "redux" => kind \in {"SIGNED_IN", "TOKEN_REFRESHED"}

\* Whether the handler clears the user for this notification.
\* AuthContext: no session user. App: SIGNED_OUT.
ClearsUser(kind, sessionUser) ==
  IF impl = "context" THEN sessionUser = None ELSE kind = "SIGNED_OUT"

\* The onAuthStateChange callback is invoked (the subscription lives from
\* mount to cleanup).
Notify(i, kind, sessionUser) ==
  /\ lifecycle = "mounted"
  /\ FreeSlot(i)
  /\ sessionUser # None => configured
  /\ IF MapsProfile(kind, sessionUser)
       THEN IF ProfileQueried
              THEN /\ events' = [events EXCEPT ![i] = [pc |-> "profile", sessionUser |-> sessionUser]]
                   /\ UNCHANGED <<user, isLoading>>
              ELSE /\ events' = [events EXCEPT ![i] = [pc |-> "done", sessionUser |-> sessionUser]]
                   /\ user' = MapSessionToUser(sessionUser, "unconfigured")
                   /\ UNCHANGED isLoading
       ELSE /\ events' = [events EXCEPT ![i] = [pc |-> "done", sessionUser |-> sessionUser]]
            /\ user' = IF ClearsUser(kind, sessionUser) THEN NoUser ELSE user
            \* authSlice setUser also clears isLoading
            /\ isLoading' = IF impl = "redux" /\ ClearsUser(kind, sessionUser)
                              THEN FALSE ELSE isLoading
  /\ signedOut' = IF sessionUser # None THEN FALSE
                   ELSE IF ClearsUser(kind, sessionUser) THEN TRUE ELSE signedOut
  /\ placeholderCalls' = IF MapsProfile(kind, sessionUser) /\ ProfileQueried
                            THEN Issued("rest/v1") ELSE placeholderCalls
  /\ UNCHANGED <<impl, lifecycle, authError, boot, failsafe, logoutPc, configured>>
  /\ UNCHANGED <<rlVars, wtVars, svcVars, likeVars, postVars, errVars, sweepVars, sliceVars, countVars, flowVars>>

AuthEvent(i, kind, sessionUser) ==
  /\ Notify(i, kind, sessionUser)
  /\ UNCHANGED loginVars

\* The continuation of the handler after `await mapSessionToUser(...)`:
\* setUser(appUser) / dispatch(setUser(appUser)).
EventMapped(i, appUser) ==
  /\ events' = [events EXCEPT ![i].pc = "done"]
  /\ user' = appUser
  /\ isLoading' = IF impl = "redux" THEN FALSE ELSE isLoading
  /\ UNCHANGED <<impl, lifecycle, authError, boot, failsafe, logoutPc, signedOut>>
  /\ UNCHANGED <<rlVars, wtVars, cfgVars, svcVars, likeVars, postVars, loginVars, errVars, sweepVars, sliceVars, countVars, flowVars>>

EventProfileSettles(i, outcome) ==
  /\ events[i].pc = "profile"
  /\ EventMapped(i, MapSessionToUser(events[i].sessionUser, outcome))

EventProfileTimeout(i) ==
  /\ events[i].pc = "profile"
  /\ EventMapped(i, MapSessionToUser(events[i].sessionUser, "timeout"))

\* AuthContext.logout: if (isSupabaseConfigured) await signOut().
\* authSlice logout thunk: await supabase.auth.signOut(), no such test.
SignOutCalled == impl = "redux" \/ configured

\* logout() is called.
Logout ==
  /\ lifecycle = "mounted"
  /\ logoutPc = "idle"
  /\ IF SignOutCalled
       THEN /\ logoutPc' = "signOut"
            /\ placeholderCalls' = Issued("auth/v1")
            /\ UNCHANGED user
       ELSE /\ logoutPc' = "done"
            /\ user' = NoUser
            /\ UNCHANGED placeholderCalls
  /\ UNCHANGED <<impl, lifecycle, isLoading, authError, boot, failsafe, events,
                 signedOut, configured>>
  /\ UNCHANGED <<rlVars, wtVars, svcVars, likeVars, postVars, loginVars, errVars, sweepVars, sliceVars, countVars, flowVars>>

\* Whether the local user is cleared once signOut has answered.
\* AuthContext: setUser(null) after the await and in the catch block.
\* authSlice: only logout.fulfilled has a reducer.
LogoutClears(outcome) == impl = "context" \/ outcome # "reject"

\* supabase.auth.signOut() answers.
LogoutSettles(outcome) ==
  /\ logoutPc = "signOut"
  /\ logoutPc' = "done"
  /\ user' = IF LogoutClears(outcome) THEN NoUser ELSE user
  /\ isLoading' = IF impl = "redux" /\ LogoutClears(outcome) THEN FALSE ELSE isLoading
  /\ authError' = IF impl = "redux" /\ LogoutClears(outcome) THEN None ELSE authError
  /\ UNCHANGED <<impl, lifecycle, boot, failsafe, events, signedOut>>
  /\ UNCHANGED <<rlVars, wtVars, cfgVars, svcVars, likeVars, postVars, loginVars, errVars, sweepVars, sliceVars, countVars, flowVars>>

\* The next logout may be started.
LogoutOver ==
  /\ logoutPc = "done"
  /\ logoutPc' = "idle"
  /\ UNCHANGED <<impl, lifecycle, user, isLoading, authError, boot, failsafe,
                 events, signedOut>>
  /\ UNCHANGED <<rlVars, wtVars, cfgVars, svcVars, likeVars, postVars, loginVars, errVars, sweepVars, sliceVars, countVars, flowVars>>

AuthIdle ==
  /\ lifecycle = "created"
  /\ user = NoUser
  /\ isLoading = TRUE
  /\ authError = None
  /\ boot = [pc |-> "idle", sessionUser |-> None]
  /\ failsafe = "unset"
  /\ events = [i \in Slots |-> [pc |-> "unused", sessionUser |-> None]]
  /\ logoutPc = "idle"
  /\ signedOut = FALSE

AuthNext ==
  \/ Mount
  \/ \E o \in {"ok", "reject"}, u \in Users \cup {None} : BootSessionSettles(o, u)
  \/ BootSessionTimeout
  \/ \E o \in ProfileOutcomes : BootProfileSettles(o)
  \/ BootProfileTimeout
  \/ Failsafe
  \/ Unmount
  \/ \E i \in Slots, n \in Notifications : AuthEvent(i, n[1], n[2])
  \/ \E i \in Slots, o \in ProfileOutcomes : EventProfileSettles(i, o)
  \/ \E i \in Slots : EventProfileTimeout(i)
  \/ Logout
  \/ \E o \in CallOutcomes : LogoutSettles(o)
  \/ LogoutOver

(***************************************************************************)
(* PostService: one call at a time. "secured" is the service with input    *)
(* checks, rate limits, withTimeout and handleError; "legacy" is the copy  *)
(* in lib/postService.ts that calls the backend bare and rethrows.         *)
(***************************************************************************)

MutatingOps ==
  {"createPost", "updatePost", "deletePost", "addLike", "removeLike",
   "addBookmark", "removeBookmark", "addComment", "deleteComment"}

DecorativeOps ==
  {"getLikesCount", "getCommentsCount", "checkUserLiked", "checkUserBookmarked",
   "getComments"}

ListingOps == {"getAllPosts", "getPostById", "getPostsByAuthor"}

SummaryOps == {"getUserStats", "getUserBookmarks"}

Ops == MutatingOps \cup DecorativeOps \cup ListingOps \cup SummaryOps \cup {"uploadImage"}

\* The arguments of a call, as far as the checks look at them.
Inputs == [idsValid : BOOLEAN, contentValid : BOOLEAN]

\* What the backend can answer to one request: a result, an error object in
\* the result, or a rejected promise.
BackendErrors == {"PGRST301", "PGRST116"}

BackendAnswers == {"ok", "fetch failed"} \cup BackendErrors

NoCallInProgress ==
  [op |-> None, args |-> [idsValid |-> TRUE, contentValid |-> TRUE], pc |-> "idle",
   step |-> 0, thrown |-> None, result |-> Pending]

\* The checks an operation makes before its first backend request, in the
\* order of the code.
PreChecks(op) ==
  IF svcImpl = "legacy"
    THEN IF op = "uploadImage" THEN <<"file">> ELSE << >>
  ELSE IF op = "uploadImage" THEN <<"config", "rate", "file">>
  ELSE IF op = "getAllPosts" THEN <<"config">>
  ELSE IF op = "createPost" THEN <<"ids", "rate", "content", "config">>
  ELSE IF op = "updatePost" THEN <<"ids", "content", "config">>
  ELSE IF op \in {"addLike", "addBookmark"} THEN <<"ids", "rate", "config">>
  ELSE IF op = "addComment" THEN <<"ids", "content", "rate", "config">>
  ELSE <<"ids", "config">>

\* The identifier an operation passes to checkRateLimit.
RateKey(op) ==
  IF op = "uploadImage" THEN "upload"
  ELSE IF op = "createPost" THEN "create-post-u1"
  ELSE IF op = "addLike" THEN "like-u1"
  ELSE IF op = "addComment" THEN "comment-u1"
  ELSE "bookmark-u1"

CheckPasses(check, op, args) ==
  IF check = "config" THEN configured
  ELSE IF check = "ids" THEN args.idsValid
  ELSE IF check = "rate" THEN CheckResult(RateKey(op)).allowed
  ELSE args.contentValid

\* The position of the first check that fails, 0 when all pass.
FirstFailing(op, args) ==
  LET checks == PreChecks(op)
      bad == {i \in 1..Len(checks) : ~CheckPasses(checks[i], op, args)}
  IN  IF bad = {} THEN 0 ELSE CHOOSE i \in bad : \A j \in bad : i <= j

\* checkRateLimit is called when no earlier check has failed.
RateReached(op, args) ==
  \E i \in 1..Len(PreChecks(op)) :
    /\ PreChecks(op)[i] = "rate"
    /\ FirstFailing(op, args) = 0 \/ i <= FirstFailing(op, args)

\* createAppError(code, ...) of a failed check.
CheckCode(check) ==
  IF check = "config" THEN "CONFIGURATION_ERROR"
  ELSE IF check = "rate" THEN "RATE_LIMITED"
  ELSE "VALIDATION_ERROR"

\* What a failed check makes of the call: a throw, or a default returned.
Refusal(op, check) ==
  IF svcImpl = "legacy" THEN Rejected(Payload("Error"))
  ELSE IF op \in MutatingOps \cup {"uploadImage"} THEN Rejected(Payload(CheckCode(check)))
  ELSE IF op \in ListingOps /\ check = "ids" THEN Rejected(Payload(CheckCode(check)))
  ELSE Resolved(Payload("default"))

\* How many backend requests an operation makes when all of them answer.
Steps(op) ==
  IF op \in {"getAllPosts", "getPostById", "getComments"} THEN 2
  ELSE IF op \in SummaryOps THEN 3
  ELSE 1

\* Requests whose error object is not looked at or only logged (the profile
\* look-ups that follow the main query).
ErrorIgnored(op, step) ==
  \/ op \in {"getAllPosts", "getPostById", "getComments"} /\ step = 2
  \/ op = "getUserBookmarks" /\ step = 3

\* Legacy getComments wraps each profile look-up in its own try/catch.
RejectIgnored(op, step) == svcImpl = "legacy" /\ op = "getComments" /\ step = 2

\* handleError(error).code for the errors of this model: an error object is
\* mapped by its code; an Error instance without code or status (a failed
\* fetch, the timeout of withTimeout) stays UNKNOWN_ERROR.
HandleErrorCode(raw) ==
  IF raw = "PGRST301" THEN "AUTHENTICATION_ERROR"
  ELSE IF raw = "PGRST116" THEN "NOT_FOUND"
  ELSE IF raw = "23505" THEN "VALIDATION_ERROR"
  ELSE "UNKNOWN_ERROR"

\* A catch block that returns a default whatever the operation.
CaughtQuietly(op, raw) == Resolved(Payload("default"))

\* The catch block of an operation.
Caught(op, raw) ==
  IF svcImpl = "legacy"
    THEN IF op = "checkUserBookmarked" THEN Resolved(Payload("default"))
         ELSE Rejected(Payload(raw))
  ELSE IF op \in MutatingOps \cup ListingOps \cup {"uploadImage"}
    THEN Rejected(Payload(HandleErrorCode(raw)))
  ELSE Resolved(Payload("default"))

\* Whether an answer is thrown into the catch block.
Thrown(op, step, answer) ==
  IF answer = "ok" THEN FALSE
  ELSE IF answer = "fetch failed" THEN ~RejectIgnored(op, step)
  ELSE IF op = "checkUserLiked" /\ answer = "PGRST116" THEN FALSE
  ELSE ~ErrorIgnored(op, step)

\* checkUserLiked: PGRST116 means no row, the answer is false.
Answered(op, answer) ==
  IF op = "checkUserLiked" /\ answer = "PGRST116" THEN Payload("default")
  ELSE Payload("value")

\* The REST or storage endpoint an operation talks to.
Endpoint(op) == IF op = "uploadImage" THEN "storage/v1" ELSE "rest/v1"

\* An operation is called: its checks run and, when they pass, the first
\* request goes out.
Invoke(op, args) ==
  /\ call.pc = "idle"
  /\ rateLimitStore' = IF RateReached(op, args) THEN StoreAfterCheck(RateKey(op))
                       ELSE rateLimitStore
  /\ IF FirstFailing(op, args) = 0
       THEN /\ call' = [op |-> op, args |-> args, pc |-> "backend", step |-> 1,
                        thrown |-> None, result |-> Pending]
            /\ placeholderCalls' = Issued(Endpoint(op))
       ELSE /\ call' = [op |-> op, args |-> args, pc |-> "settled", step |-> 0,
                        thrown |-> None,
                        result |-> Refusal(op, PreChecks(op)[FirstFailing(op, args)])]
            /\ UNCHANGED placeholderCalls
  /\ UNCHANGED <<now, rlLast, winStart, winCalls, configured, svcImpl>>
  /\ UNCHANGED <<wtVars, authVars, likeVars, postVars, loginVars, errVars, sweepVars, sliceVars, countVars, flowVars>>

\* The backend answers the request in flight.
BackendAnswer(answer) ==
  /\ call.pc = "backend"
  /\ IF Thrown(call.op, call.step, answer)
       THEN /\ call' = [call EXCEPT !.pc = "settled", !.thrown = answer,
                                    !.result = Caught(call.op, answer)]
            /\ UNCHANGED placeholderCalls
       ELSE IF call.step < Steps(call.op)
         THEN /\ call' = [call EXCEPT !.step = @ + 1]
              /\ placeholderCalls' = Issued(Endpoint(call.op))
         ELSE /\ call' = [call EXCEPT !.pc = "settled",
                                      !.result = Resolved(Answered(call.op, answer))]
              /\ UNCHANGED placeholderCalls
  /\ UNCHANGED <<configured, svcImpl>>
  /\ UNCHANGED <<rlVars, wtVars, authVars, likeVars, postVars, loginVars, errVars, sweepVars, sliceVars, countVars, flowVars>>

\* The timer of withTimeout fires before the backend has answered (the
\* secured service only; the legacy one waits for ever).
BackendTimeout ==
  /\ call.pc = "backend"
  /\ svcImpl = "secured"
  /\ call' = [call EXCEPT !.pc = "settled", !.thrown = "timed out after",
                          !.result = Caught(call.op, "timed out after")]
  /\ UNCHANGED <<svcImpl>>
  /\ UNCHANGED <<rlVars, wtVars, cfgVars, authVars, likeVars, postVars, loginVars, errVars, sweepVars, sliceVars, countVars, flowVars>>

\* The caller has the outcome; the next call may start.
Return ==
  /\ call.pc = "settled"
  /\ call' = NoCallInProgress
  /\ UNCHANGED <<svcImpl>>
  /\ UNCHANGED <<rlVars, wtVars, cfgVars, authVars, likeVars, postVars, loginVars, errVars, sweepVars, sliceVars, countVars, flowVars>>

ServiceNext ==
  \/ \E op \in Ops, args \in Inputs : Invoke(op, args)
  \/ \E answer \in BackendAnswers : BackendAnswer(answer)
  \/ BackendTimeout
  \/ Return

(***************************************************************************)
(* Likes and bookmarks of one (post, user) pair: the tables, the page      *)
(* handlers (BlogFeed.handleLike, PostDetailPage.handleLike and            *)
(* handleBookmark) and the postsSlice thunks (toggleLike, toggleBookmark)  *)
(* over the secured PostService.                                           *)
(***************************************************************************)

\* How many add requests the user's rate-limit window still allows at the start.
LikeBudget == 2

\* Likes of the post by other users.
OtherLikes == 1

\* posts[].likeCount before any toggleLike.fulfilled: undefined.
Unset == -1

\* The handler or thunk invocations that may be in flight at once.
Tasks == {"first", "second"}

\* An invocation: where it is, what it does, and, once it is done, what it
\* found and changed (history): had, whether the pair had a row before its
\* request; dRows and dCount, by how much its request changed the rows and
\* its continuation the visible count; based, whether a count was visible
\* before. The history is kept for like toggles that ran alone and met no
\* backend error; Finished drops it for the others.
NoToggle ==
  [pc |-> "idle", via |-> None, kind |-> None, acts |-> None,
   had |-> FALSE, dRows |-> 0, dCount |-> 0, based |-> TRUE,
   overlapped |-> FALSE, faulty |-> FALSE, error |-> None]

\* What the backend does with a request of a toggle: answers, reports an
\* error, or is so late that withTimeout has rejected, the request either
\* lost or carried out all the same.
ToggleAnswers == {"ok", "error", "timeout lost", "timeout applied"}

InFlight(i) == toggles[i].pc \notin {"idle", "done"}

\* An invocation takes the first record; the second one serves a toggle
\* started while the first is in flight.
Free(i) ==
  /\ toggles[i].pc = "idle"
  /\ i = "second" => InFlight("first")

\* The record of a toggle that is over.
Finished(t) ==
  IF t.kind = "like" /\ ~t.overlapped /\ ~t.faulty
    THEN [t EXCEPT !.pc = "done", !.via = None, !.acts = None]
    ELSE [t EXCEPT !.pc = "done", !.via = None, !.acts = None,
                   !.had = FALSE, !.dRows = 0, !.dCount = 0, !.based = TRUE]

\* INSERT without the UNIQUE(post_id, user_id) constraint.
InsertRowUnchecked(rows) == [rows |-> rows + 1, error |-> None]

\* INSERT into likes / bookmarks: UNIQUE(post_id, user_id) refuses a second
\* row of the pair with 23505.
InsertRow(rows) ==
  IF rows >= 1 THEN [rows |-> rows, error |-> "23505"]
  ELSE [rows |-> rows + 1, error |-> None]

\* DELETE ... WHERE post_id = ... AND user_id = ...: no error when no row matches.
DeleteRows(rows) == [rows |-> 0, error |-> None]

Rows(kind) == IF kind = "like" THEN db.likes ELSE db.bookmarks

\* The flag the page handler reads: isLiked / likes[postId], isBookmarked.
PageFlag(kind) == IF kind = "like" THEN page.isLiked ELSE page.isBookmarked

AddKey(kind) == IF kind = "like" THEN "like-u1" ELSE "bookmark-u1"

\* A toggle that starts while another is in flight overlaps it.
Overlap(i) == [j \in Tasks |->
  IF j # i /\ InFlight(j) THEN [toggles[j] EXCEPT !.overlapped = TRUE] ELSE toggles[j]]

\* addLike / addBookmark or removeLike / removeBookmark is called: the add
\* passes checkRateLimit first.
Mutation(i, t, flag) ==
  LET acts == IF flag THEN "remove" ELSE "add"
      denied == acts = "add" /\ ~CheckResult(AddKey(t.kind)).allowed
  IN  /\ rateLimitStore' = IF acts = "add" THEN StoreAfterCheck(AddKey(t.kind))
                           ELSE rateLimitStore
      /\ toggles' = [Overlap(i) EXCEPT ![i] =
           IF denied
             THEN Finished([t EXCEPT !.error = "RATE_LIMITED", !.had = Rows(t.kind) > 0])
             ELSE [t EXCEPT !.pc = "mutate", !.acts = acts]]

\* handleLike / handleBookmark: the flag is read from the component state.
PageToggle(i, kind) ==
  /\ Free(i)
  /\ Mutation(i, [toggles[i] EXCEPT !.via = "page", !.kind = kind,
                    !.overlapped = \E j \in Tasks : j # i /\ InFlight(j)],
              PageFlag(kind))
  /\ UNCHANGED <<now, rlLast, winStart, winCalls, db, page, storeLikeCount>>
  /\ UNCHANGED <<wtVars, cfgVars, authVars, svcVars, postVars, loginVars, errVars, sweepVars, sliceVars, countVars, flowVars>>

\* dispatch(toggleLike / toggleBookmark): checkUserLiked / checkUserBookmarked goes out.
ThunkToggle(i, kind) ==
  /\ Free(i)
  /\ toggles' = [Overlap(i) EXCEPT ![i] =
       [toggles[i] EXCEPT !.pc = "check", !.via = "thunk", !.kind = kind,
          !.overlapped = \E j \in Tasks : j # i /\ InFlight(j)]]
  /\ UNCHANGED <<db, page, storeLikeCount>>
  /\ UNCHANGED <<rlVars, wtVars, cfgVars, authVars, svcVars, postVars, loginVars, errVars, sweepVars, sliceVars, countVars, flowVars>>

\* checkUserLiked / checkUserBookmarked returns: the truth, or false when the
\* request failed or timed out.
CheckAnswers(i, answer) ==
  /\ toggles[i].pc = "check"
  /\ answer \in {"ok", "error", "timeout lost"}
  /\ Mutation(i, [toggles[i] EXCEPT !.faulty = answer # "ok"],
              answer = "ok" /\ Rows(toggles[i].kind) > 0)
  /\ UNCHANGED <<now, rlLast, winStart, winCalls, db, page, storeLikeCount>>
  /\ UNCHANGED <<wtVars, cfgVars, authVars, svcVars, postVars, loginVars, errVars, sweepVars, sliceVars, countVars, flowVars>>

\* The table after the request of a toggle, when the request reaches it.
Applied(t) == IF t.acts = "add" THEN InsertRow(Rows(t.kind)) ELSE DeleteRows(Rows(t.kind))

\* The add or remove settles; the handler or thunk continues.
MutateAnswers(i, answer) ==
  LET t == toggles[i]
      reaches == answer \in {"ok", "timeout applied"}
      rows == IF reaches THEN Applied(t).rows ELSE Rows(t.kind)
      error == IF answer = "ok" THEN Applied(t).error
               ELSE IF answer = "error" THEN "PGRST301" ELSE "timed out after"
      ok == error = None
      counts == ok /\ t.via = "thunk" /\ t.kind = "like"
      dCount == IF t.via = "page" /\ ok /\ t.kind = "like"
                  THEN IF t.acts = "add" THEN 1 ELSE -1
                ELSE 0
      done == [t EXCEPT !.had = Rows(t.kind) > 0, !.dRows = rows - Rows(t.kind),
                        !.error = error, !.faulty = @ \/ ~ok]
  IN  /\ t.pc = "mutate"
      /\ db' = IF t.kind = "like" THEN [db EXCEPT !.likes = rows]
               ELSE [db EXCEPT !.bookmarks = rows]
      /\ page' = IF t.via = "page" /\ ok
                   THEN IF t.kind = "like"
                          THEN [page EXCEPT !.isLiked = t.acts = "add",
                                            !.likeCount = @ + dCount]
                          ELSE [page EXCEPT !.isBookmarked = t.acts = "add"]
                 ELSE page
      /\ toggles' = [toggles EXCEPT ![i] =
           IF counts THEN [done EXCEPT !.pc = "count"]
           ELSE Finished([done EXCEPT !.dCount = dCount])]
      /\ UNCHANGED storeLikeCount
      /\ UNCHANGED <<rlVars, wtVars, cfgVars, authVars, svcVars, postVars, loginVars, errVars, sweepVars, sliceVars, countVars, flowVars>>

\* getLikesCount returns the count, or 0 when the request failed or timed
\* out; toggleLike.fulfilled stores it.
CountAnswers(i, answer) ==
  LET t == toggles[i]
      likeCount == IF answer = "ok" THEN db.likes + db.others ELSE 0
  IN  /\ t.pc = "count"
      /\ answer \in {"ok", "error", "timeout lost"}
      /\ storeLikeCount' = likeCount
      /\ toggles' = [toggles EXCEPT ![i] =
           Finished([t EXCEPT !.faulty = @ \/ answer # "ok",
                              !.based = storeLikeCount # Unset,
                              !.dCount = IF storeLikeCount # Unset
                                           THEN likeCount - storeLikeCount ELSE 0])]
      /\ UNCHANGED <<db, page>>
      /\ UNCHANGED <<rlVars, wtVars, cfgVars, authVars, svcVars, postVars, loginVars, errVars, sweepVars, sliceVars, countVars, flowVars>>

\* The handler or thunk is over.
ToggleOver(i) ==
  /\ toggles[i].pc = "done"
  /\ toggles' = [toggles EXCEPT ![i] = NoToggle]
  /\ UNCHANGED <<db, page, storeLikeCount>>
  /\ UNCHANGED <<rlVars, wtVars, cfgVars, authVars, svcVars, postVars, loginVars, errVars, sweepVars, sliceVars, countVars, flowVars>>

LikesIdle ==
  /\ db = [likes |-> 0, bookmarks |-> 0, others |-> 0]
  /\ page = [isLiked |-> FALSE, likeCount |-> 0, isBookmarked |-> FALSE]
  /\ storeLikeCount = Unset
  /\ toggles = [i \in Tasks |-> NoToggle]

LikesNext ==
  \/ \E i \in Tasks, kind \in {"like", "bookmark"} : PageToggle(i, kind)
  \/ \E i \in Tasks, kind \in {"like", "bookmark"} : ThunkToggle(i, kind)
  \/ \E i \in Tasks, answer \in ToggleAnswers : CheckAnswers(i, answer)
  \/ \E i \in Tasks, answer \in ToggleAnswers : MutateAnswers(i, answer)
  \/ \E i \in Tasks, answer \in ToggleAnswers : CountAnswers(i, answer)
  \/ \E i \in Tasks : ToggleOver(i)

(***************************************************************************)
(* Posts: texts, validatePostInput, createPost / updatePost of the secured *)
(* PostService and of PostStore, and the post editor                       *)
(***************************************************************************)

MAX_CONTENT_LENGTH == 50000
MAX_TITLE_LENGTH == 200
MAX_EXCERPT_LENGTH == 500
wordsPerMinute == 200
\* handleSave: content.trim().substring(0, 200)
ExcerptLength == 200

\* The number of words of the long texts of the model.
LongWords == 250

\* A text is a sequence of runs: a piece of text and how often it is
\* repeated. No two neighbouring runs have the same piece. The pieces of the
\* model carry no event handler, javascript: or data: URL.
Run(piece, n) == [piece |-> piece, n |-> n]

\* How many times sanitizeHtml is applied to one text, save after save.
MaxEscapes == 2

Depths == 0..MaxEscapes

\* "&" after it has gone d times through .replace(/&/g, '&amp;')
RECURSIVE Amp(_)
Amp(d) == IF d = 1 THEN "&" ELSE Amp(d - 1) \o "amp;"

\* The pieces with characters sanitizeHtml replaces, as typed (d = 0) and
\* after d passes through it.
Apostrophe(d, tail) ==
  IF d = 0 THEN "it's" \o tail ELSE "it" \o Amp(d) \o "#x27;s" \o tail

OpenTag(d) ==
  IF d = 0 THEN "<script>" ELSE Amp(d) \o "lt;script" \o Amp(d) \o "gt;"

CloseTag(d) ==
  IF d = 0 THEN "</script>"
  ELSE Amp(d) \o "lt;" \o Amp(d) \o "#x2F;script" \o Amp(d) \o "gt;"

Special(d) == {Apostrophe(d, " "), Apostrophe(d, ""), OpenTag(d), CloseTag(d)}

\* How often a piece has been through sanitizeHtml; -1 for a piece it
\* leaves alone.
Depth(piece) ==
  IF \E d \in Depths : piece \in Special(d)
    THEN CHOOSE d \in Depths : piece \in Special(d)
  ELSE -1

\* The pieces that end in white space, and what is left without it.
EndsInSpace(piece) ==
  piece = "word " \/ \E d \in Depths : piece = Apostrophe(d, " ")

Chop(piece) ==
  IF piece = "word " THEN "word"
  ELSE IF EndsInSpace(piece) THEN Apostrophe(Depth(piece), "")
  ELSE piece

RECURSIVE Normal(_)
Normal(s) ==
  IF Len(s) < 2 THEN s
  ELSE IF s[1].piece = s[2].piece
    THEN Normal(<<Run(s[1].piece, s[1].n + s[2].n)>> \o SubSeq(s, 3, Len(s)))
  ELSE <<s[1]>> \o Normal(Tail(s))

\* String.length
RECURSIVE Length(_)
Length(s) ==
  IF s = << >> THEN 0 ELSE s[1].n * Len(s[1].piece) + Length(Tail(s))

\* String.trim(); a text of the model has no white space in front.
Trim(s) ==
  IF s = << >> \/ ~EndsInSpace(s[Len(s)].piece) THEN s
  ELSE LET last == s[Len(s)]
       IN  Normal(SubSeq(s, 1, Len(s) - 1)
                    \o (IF last.n > 1 THEN <<Run(last.piece, last.n - 1)>>
                        ELSE << >>)
                    \o <<Run(Chop(last.piece), 1)>>)

\* The first k characters of a piece, 0 < k < Len(piece); the model cuts
\* no other piece than "word ".
Cut(piece, k) ==
  IF piece # "word " THEN piece
  ELSE IF k = 1 THEN "w" ELSE IF k = 2 THEN "wo" ELSE IF k = 3 THEN "wor"
  ELSE "word"

\* String.substring(0, n)
RECURSIVE Substring(_, _)
Substring(s, n) ==
  IF s = << >> \/ n = 0 THEN << >>
  ELSE LET size == Len(s[1].piece)
           fit == n \div size
           rest == n % size
       IN  IF fit < s[1].n
             THEN (IF fit > 0 THEN <<Run(s[1].piece, fit)>> ELSE << >>)
                    \o (IF rest > 0 THEN <<Run(Cut(s[1].piece, rest), 1)>>
                        ELSE << >>)
           ELSE <<s[1]>> \o Substring(Tail(s), n - s[1].n * size)

RECURSIVE Spaced(_)
Spaced(s) ==
  IF s = << >> THEN 0
  ELSE (IF EndsInSpace(s[1].piece) THEN s[1].n ELSE 0) + Spaced(Tail(s))

\* content.trim().split(/\s+/).length: the pieces up to a white space make
\* one word, and the empty text splits into one empty word.
WordCount(s) == Spaced(Trim(s)) + 1

calculateReadTime(content) ==
  LET minutes == Ceil(WordCount(content), wordsPerMinute)
  IN  IF minutes > 1 THEN minutes ELSE 1

\* The replacements of sanitizeHtml, piece by piece.
Escape(piece) ==
  LET d == Depth(piece)
  IN  IF d = -1 \/ d = MaxEscapes THEN piece
      ELSE IF piece = Apostrophe(d, " ") THEN Apostrophe(d + 1, " ")
      ELSE IF piece = Apostrophe(d, "") THEN Apostrophe(d + 1, "")
      ELSE IF piece = OpenTag(d) THEN OpenTag(d + 1)
      ELSE CloseTag(d + 1)

\* The texts whose pieces the model can take through sanitizeHtml once more.
Escapable(text) == \A i \in DOMAIN text : Depth(text[i].piece) < MaxEscapes

sanitizeHtml(input) ==
  IF input = << >> THEN << >>
  ELSE [i \in DOMAIN input |-> Run(Escape(input[i].piece), input[i].n)]

\* Every <script ...> ... </script> span is removed, each from an opening
\* tag to the first closing tag behind it.
RECURSIVE sanitizeRichText(_)
sanitizeRichText(input) ==
  LET closes(i) == {j \in DOMAIN input : j > i /\ input[j].piece = "</script>"}
      opens == {i \in DOMAIN input :
                  input[i].piece = "<script>" /\ closes(i) # {}}
  IN  IF opens = {} THEN input
      ELSE LET i == CHOOSE k \in opens : \A m \in opens : k <= m
               j == CHOOSE k \in closes(i) : \A m \in closes(i) : k <= m
               open == IF input[i].n > 1
                         THEN <<Run("<script>", input[i].n - 1)>> ELSE << >>
               close == IF input[j].n > 1
                          THEN <<Run("</script>", input[j].n - 1)>> ELSE << >>
           IN  Normal(SubSeq(input, 1, i - 1) \o open
                        \o sanitizeRichText(
                             close \o SubSeq(input, j + 1, Len(input))))

\* A field of an input object: given, or left undefined.
Omitted == [given |-> FALSE, text |-> << >>]
Given(t) == [given |-> TRUE, text |-> t]

validatePostInput(input) ==
  LET titleError ==
        /\ input.title.given
        /\ \/ Length(input.title.text) = 0
           \/ Length(input.title.text) > MAX_TITLE_LENGTH
      contentError ==
        /\ input.content.given
        /\ \/ Length(input.content.text) = 0
           \/ Length(input.content.text) > MAX_CONTENT_LENGTH
      excerptError ==
        /\ input.excerpt.given
        /\ Length(input.excerpt.text) > MAX_EXCERPT_LENGTH
  IN  [valid |-> ~(titleError \/ contentError \/ excerptError),
       sanitized |->
         [title |-> IF input.title.given
                      THEN Given(sanitizeHtml(input.title.text)) ELSE Omitted,
          content |-> IF input.content.given
                        THEN Given(sanitizeRichText(input.content.text))
                        ELSE Omitted,
          excerpt |-> IF input.excerpt.given
                        THEN Given(sanitizeHtml(input.excerpt.text))
                        ELSE Omitted]]

\* The texts that are typed or passed in.
Empty == << >>
Hi == <<Run("Hi", 1)>>
Short == <<Run("word ", 3)>>
Long == <<Run("word ", LongWords)>>
Quoted == <<Run("it's ", 1), Run("word ", 2)>>
Scripted == <<Run("<script>", 1)>> \o Trim(Long) \o <<Run("</script>", 1)>>
Contents == {Empty, Short, Long, Quoted, Scripted}

\* The signed-in user, and the posts of the model: p1 is the one the model
\* creates, p2 was written by somebody else.
Me == "u1"
NewId == "p1"
PostIds == {"p1", "p2"}
PostImpls == {"service", "store"}
PostAnswers == {"ok", "fetch failed"}

NoPost ==
  [exists |-> FALSE, authorId |-> None, title |-> Empty, content |-> Empty,
   excerpt |-> Empty, readTime |-> 0]

ForeignPost ==
  [exists |-> TRUE, authorId |-> "u2", title |-> Hi, content |-> Short,
   excerpt |-> Trim(Short), readTime |-> calculateReadTime(Short)]

\* The fields of the editor, and what a caller passes to createPost.
Form(title, content, excerpt) ==
  [title |-> title, content |-> content, excerpt |-> excerpt]

Forms ==
  {Form(Hi, Long, Empty), Form(Hi, Quoted, Empty), Form(Hi, Scripted, Empty),
   Form(Hi, Short, Short), Form(Hi, Empty, Empty), Form(Empty, Short, Empty)}
BlankForm == Form(Empty, Empty, Empty)

\* What a caller passes to updatePost next to the id.
Updates ==
  [title : {Omitted}, content : {Omitted} \cup {Given(t) : t \in Contents},
   excerpt : {Omitted}]

ClosedEditor == [id |-> None, load |-> "closed", form |-> BlankForm]

NoSave ==
  [op |-> None, id |-> None, author |-> None, confirmed |-> FALSE,
   excerptTyped |-> FALSE, outcome |-> None]

\* JavaScript's a || b on strings.
OrElse(a, b) == IF a # Empty THEN a ELSE b

\* How createPost ends: "ok" or the code of the error it throws.
CreateOutcome(input, answer) ==
  IF postImpl = "store" THEN "ok"
  ELSE IF ~CheckResult(RateKey("createPost")).allowed THEN "RATE_LIMITED"
  ELSE IF ~validatePostInput([title |-> Given(input.title),
                              content |-> Given(input.content),
                              excerpt |-> Given(input.excerpt)]).valid
    THEN "VALIDATION_ERROR"
  ELSE IF ~configured THEN "CONFIGURATION_ERROR"
  ELSE IF answer # "ok" THEN HandleErrorCode(answer)
  ELSE "ok"

\* The row createPost writes.
CreatedRow(input) ==
  IF postImpl = "store"
    THEN [exists |-> TRUE, authorId |-> Me, title |-> input.title,
          content |-> input.content, excerpt |-> input.excerpt,
          readTime |-> calculateReadTime(input.content)]
  ELSE LET sanitized == validatePostInput(
                          [title |-> Given(input.title),
                           content |-> Given(input.content),
                           excerpt |-> Given(input.excerpt)]).sanitized
       IN  [exists |-> TRUE, authorId |-> Me,
            title |-> sanitized.title.text,
            content |-> sanitized.content.text,
            excerpt |-> sanitized.excerpt.text,
            readTime |-> calculateReadTime(
                           OrElse(sanitized.content.text, input.content))]

\* How updatePost ends: "ok", "null" (no such post) or an error code.
UpdateOutcome(id, input, answer) ==
  IF postImpl = "store" THEN IF posts[id].exists THEN "ok" ELSE "null"
  ELSE IF ~validatePostInput(input).valid THEN "VALIDATION_ERROR"
  ELSE IF ~configured THEN "CONFIGURATION_ERROR"
  ELSE IF answer # "ok" THEN HandleErrorCode(answer)
  ELSE IF ~posts[id].exists THEN HandleErrorCode("PGRST116")
  ELSE "ok"

\* The row updatePost leaves.
UpdatedRow(old, input) ==
  IF postImpl = "store"
    THEN [old EXCEPT
            !.title = IF input.title.given THEN input.title.text ELSE @,
            !.content = IF input.content.given THEN input.content.text ELSE @,
            !.excerpt = IF input.excerpt.given THEN input.excerpt.text ELSE @,
            !.readTime = IF input.content.given /\ input.content.text # Empty
                           THEN calculateReadTime(input.content.text) ELSE @]
  ELSE LET sanitized == validatePostInput(input).sanitized
       IN  [old EXCEPT
              !.title = IF input.title.given THEN sanitized.title.text ELSE @,
              !.content = IF input.content.given
                            THEN sanitized.content.text ELSE @,
              !.excerpt = IF input.excerpt.given
                            THEN sanitized.excerpt.text ELSE @,
              !.readTime = IF input.content.given
                             THEN calculateReadTime(
                                    OrElse(sanitized.content.text,
                                           input.content.text))
                             ELSE @]

\* createPost runs to its end; the model creates one post.
Create(input, answer) ==
  /\ ~posts[NewId].exists
  /\ rateLimitStore' = IF postImpl = "service"
                         THEN StoreAfterCheck(RateKey("createPost"))
                         ELSE rateLimitStore
  /\ posts' = IF CreateOutcome(input, answer) = "ok"
                THEN [posts EXCEPT ![NewId] = CreatedRow(input)]
                ELSE posts

\* updatePost runs to its end.
Update(id, input, answer) ==
  /\ posts' = IF UpdateOutcome(id, input, answer) = "ok"
                THEN [posts EXCEPT ![id] = UpdatedRow(posts[id], input)]
                ELSE posts
  /\ UNCHANGED rateLimitStore

PostFrame ==
  /\ UNCHANGED <<now, rlLast, winStart, winCalls, postImpl>>
  /\ UNCHANGED <<wtVars, cfgVars, authVars, svcVars, likeVars, loginVars, errVars, sweepVars, sliceVars, countVars, flowVars>>

\* A caller other than the editor creates a post.
createPost(input, answer) ==
  /\ Create(input, answer)
  /\ lastSave' = NoSave
  /\ UNCHANGED editor
  /\ PostFrame

\* A caller other than the editor updates the user's post.
updatePost(input, answer) ==
  /\ Update(NewId, input, answer)
  /\ lastSave' = NoSave
  /\ UNCHANGED editor
  /\ PostFrame

\* The editor is opened on /editor or /editor/:id; with an id the effect
\* starts loadPost.
OpenEditor(id) ==
  /\ postImpl = "service"
  /\ editor.load = "closed"
  /\ editor' = [id |-> id, load |-> IF id = None THEN "new" ELSE "pending",
                form |-> BlankForm]
  /\ UNCHANGED <<rateLimitStore, posts, lastSave>>
  /\ PostFrame

\* getPostById answers loadPost: the fields are filled in when the post is
\* the user's own, the editor is left for the dashboard otherwise.
loadPost(answer) ==
  /\ editor.load = "pending"
  /\ editor' = IF answer = "ok" /\ posts[editor.id].exists
                    /\ posts[editor.id].authorId = Me
                 THEN [editor EXCEPT
                         !.load = "confirmed",
                         !.form = [title |-> posts[editor.id].title,
                                   content |-> posts[editor.id].content,
                                   excerpt |-> posts[editor.id].excerpt]]
                 ELSE ClosedEditor
  /\ UNCHANGED <<rateLimitStore, posts, lastSave>>
  /\ PostFrame

\* The user fills in the fields.
Type(form) ==
  /\ editor.load # "closed"
  /\ editor' = [editor EXCEPT !.form = form]
  /\ UNCHANGED <<rateLimitStore, posts, lastSave>>
  /\ PostFrame

\* The input handleSave builds from the fields.
SaveInput(form) ==
  [title |-> Trim(form.title), content |-> Trim(form.content),
   excerpt |-> OrElse(Trim(form.excerpt),
                      Substring(Trim(form.content), ExcerptLength))]

\* handleSave with no image selected: updatePost with an id in the route,
\* createPost without.
Save(answer) ==
  LET input == SaveInput(editor.form)
      update == [title |-> Given(input.title), content |-> Given(input.content),
                 excerpt |-> Given(input.excerpt)]
  IN  /\ Trim(editor.form.title) # Empty
      /\ Escapable(input.title) /\ Escapable(input.excerpt)
      /\ IF editor.id # None
           THEN Update(editor.id, update, answer)
           ELSE Create(input, answer)
      /\ lastSave' =
           [op |-> IF editor.id # None THEN "updatePost" ELSE "createPost",
            id |-> IF editor.id # None THEN editor.id ELSE NewId,
            author |-> IF editor.id # None THEN posts[editor.id].authorId
                       ELSE Me,
            confirmed |-> editor.load = "confirmed",
            excerptTyped |-> Trim(editor.form.excerpt) # Empty,
            outcome |-> IF editor.id # None
                          THEN UpdateOutcome(editor.id, update, answer)
                          ELSE CreateOutcome(input, answer)]

\* Save draft is clicked; after a createPost the route moves to the new
\* post's id and the effect starts loadPost.
handleSave(answer) ==
  /\ editor.load # "closed"
  /\ Save(answer)
  /\ editor' = IF editor.id = None
                    /\ CreateOutcome(SaveInput(editor.form), answer) = "ok"
                 THEN [editor EXCEPT !.id = NewId, !.load = "pending"]
                 ELSE editor
  /\ PostFrame

\* Publish is clicked: handleSave, then the dashboard.
handlePublish(answer) ==
  /\ editor.load # "closed"
  /\ Trim(editor.form.content) # Empty
  /\ Save(answer)
  /\ editor' = ClosedEditor
  /\ PostFrame

PostsIdle ==
  /\ postImpl = "service"
  /\ posts = [id \in PostIds |-> NoPost]
  /\ editor = ClosedEditor
  /\ lastSave = NoSave

PostsNext ==
  \/ \E input \in Forms, answer \in PostAnswers : createPost(input, answer)
  \/ \E input \in Updates, answer \in PostAnswers : updatePost(input, answer)
  \/ \E id \in PostIds \cup {None} : OpenEditor(id)
  \/ \E answer \in PostAnswers : loadPost(answer)
  \/ \E form \in Forms : Type(form)
  \/ \E answer \in PostAnswers : handleSave(answer)
  \/ \E answer \in PostAnswers : handlePublish(answer)

(***************************************************************************)
(* login and signup of the two auth containers                             *)
(***************************************************************************)

\* How many login / signup calls one run makes.
MaxAuthCalls == 3

Emails == {"a@x.io", "b@x.io"}
Addresses == Emails \cup {"nobody"}
AuthKinds == {"login", "signup"}

\* /^[^\s@]+@[^\s@]+\.[^\s@]+$/ on the addresses of the model
isValidEmail(email) == email \in Emails

\* The account the backend keeps for an address.
UserOf(email) == IF email = "a@x.io" THEN "u1" ELSE "u2"

\* The key passed to checkRateLimit: `login-${email}`, 'signup'.
AuthRateKey(kind, email) ==
  IF kind = "signup" THEN "signup"
  ELSE IF email = "a@x.io" THEN "login-a@x.io"
  ELSE "login-b@x.io"

\* What signInWithPassword / signUp can answer: a user, no user, an error
\* object in the result, or a rejected promise.
AuthOutcomes == {"user", "nouser", "error", "reject"}

\* handleError(error).code of a failed sign-in or sign-up.
AuthErrorCode(outcome) ==
  IF outcome = "error" THEN "AUTHENTICATION_ERROR" ELSE "UNKNOWN_ERROR"

NoAuthCall ==
  [kind |-> None, email |-> None, pc |-> "idle", authUser |-> None,
   timedOut |-> FALSE, late |-> FALSE, backendUser |-> None,
   notified |-> FALSE, insert |-> None, profile |-> None,
   mapped |-> NoUser, result |-> Pending]

\* The check that ends the call before its request, None when all pass.
\* authSlice only tests the configuration.
AuthRefusal(kind, email, formValid) ==
  IF impl = "redux"
    THEN IF configured THEN None ELSE "CONFIGURATION_ERROR"
  ELSE IF ~isValidEmail(email) \/ (kind = "signup" /\ ~formValid)
    THEN "VALIDATION_ERROR"
  ELSE IF ~CheckResult(AuthRateKey(kind, email)).allowed THEN "RATE_LIMITED"
  ELSE IF ~configured THEN "CONFIGURATION_ERROR"
  ELSE None

\* Whether the call gets as far as checkRateLimit.
AuthRateChecked(kind, email, formValid) ==
  impl = "context" /\ isValidEmail(email) /\ (kind = "signup" => formValid)

\* The thunk's rejected reducer stores the message.
AuthFailed(code) == IF impl = "redux" THEN code ELSE authError

\* login(email, password) / signup(email, password, name) is called.
AuthCall(kind, email, formValid) ==
  /\ lifecycle = "mounted"
  /\ authCall.pc \in {"idle", "done"}
  /\ authCalls < MaxAuthCalls
  /\ authCalls' = authCalls + 1
  /\ rateLimitStore' = IF AuthRateChecked(kind, email, formValid)
                         THEN StoreAfterCheck(AuthRateKey(kind, email))
                         ELSE rateLimitStore
  /\ attempts' = IF AuthRateChecked(kind, email, formValid)
                   THEN [attempts EXCEPT ![kind][email] = @ + 1]
                   ELSE attempts
  /\ IF AuthRefusal(kind, email, formValid) = None
       THEN /\ authCall' = [NoAuthCall EXCEPT !.kind = kind, !.email = email,
                                              !.pc = "auth"]
            /\ authError' = IF impl = "redux" THEN None ELSE authError
       ELSE /\ authCall' =
                 [NoAuthCall EXCEPT
                    !.kind = kind, !.email = email, !.pc = "done",
                    !.result = Rejected(Payload(AuthRefusal(kind, email, formValid)))]
            /\ authError' = AuthFailed(AuthRefusal(kind, email, formValid))
  /\ UNCHANGED <<impl, lifecycle, user, isLoading, boot, failsafe, events,
                 logoutPc, signedOut>>
  /\ UNCHANGED <<now, rlLast, winStart, winCalls>>
  /\ UNCHANGED <<wtVars, cfgVars, svcVars, likeVars, postVars, errVars, sweepVars, sliceVars, countVars, flowVars>>

LoginFrame ==
  /\ UNCHANGED <<impl, lifecycle, isLoading, boot, failsafe, events, logoutPc,
                 signedOut, authCalls, attempts>>
  /\ UNCHANGED <<rlVars, wtVars, cfgVars, svcVars, likeVars, postVars, errVars, sweepVars, sliceVars, countVars, flowVars>>

\* AuthContext.signup awaits the insert of the profile row; the thunk does
\* not wait for it.
InsertAwaited == authCall.kind = "signup" /\ impl = "context"

\* signInWithPassword / signUp answers in time.
AuthSettles(outcome) ==
  /\ authCall.pc = "auth"
  /\ IF outcome = "user"
       THEN /\ authCall' = [authCall EXCEPT
                              !.pc = IF InsertAwaited THEN "insert" ELSE "profile",
                              !.authUser = UserOf(authCall.email),
                              !.backendUser = UserOf(authCall.email)]
            /\ UNCHANGED <<user, authError>>
     ELSE IF outcome = "nouser"
       THEN /\ authCall' = [authCall EXCEPT
                              !.pc = "done", !.result = Resolved(Payload("none"))]
            \* login.fulfilled / signup.fulfilled with payload null
            /\ user' = IF impl = "redux" THEN NoUser ELSE user
            /\ authError' = IF impl = "redux" THEN None ELSE authError
     ELSE /\ authCall' = [authCall EXCEPT
                            !.pc = "done",
                            !.result = Rejected(Payload(AuthErrorCode(outcome)))]
          /\ authError' = AuthFailed(AuthErrorCode(outcome))
          /\ UNCHANGED user
  /\ LoginFrame

\* The timer of the sign-in or sign-up call (15 s / 10 s) fires first: the
\* caller is told, the request is still on its way.
AuthTimeout ==
  /\ authCall.pc = "auth"
  /\ authCall' = [authCall EXCEPT
                    !.pc = "done", !.timedOut = TRUE, !.late = TRUE,
                    !.result = Rejected(Payload("UNKNOWN_ERROR"))]
  /\ authError' = AuthFailed("UNKNOWN_ERROR")
  /\ UNCHANGED user
  /\ LoginFrame

\* The request of a call that timed out is answered; the race is over and
\* the answer goes nowhere.
LateAuthSettles(outcome) ==
  /\ authCall.late
  /\ authCall' = [authCall EXCEPT
                    !.late = FALSE,
                    !.backendUser = IF outcome = "user"
                                      THEN UserOf(authCall.email) ELSE None]
  /\ UNCHANGED <<user, authError>>
  /\ LoginFrame

\* The inner try / catch of signup around the insert of the profile row.
InsertFailureThrown(outcome) == outcome = "ok"

InsertFailureIgnored(outcome) == TRUE

\* The insert of the profile row answers, or its 10 s timer fires
\* (outcome "timeout").
InsertSettles(outcome) ==
  /\ authCall.pc = "insert"
  /\ authCall' = IF InsertFailureIgnored(outcome)
                   THEN [authCall EXCEPT !.pc = "profile", !.insert = outcome]
                   ELSE [authCall EXCEPT
                           !.pc = "done", !.insert = outcome,
                           !.result = Rejected(Payload("UNKNOWN_ERROR"))]
  /\ UNCHANGED <<user, authError>>
  /\ LoginFrame

\* mapSessionToUser lets the rejection and the timeout of the query out.
ProfileUncaught(outcome) == outcome \notin {"reject", "timeout"}

\* mapSessionToUser: the query is inside try / catch, the thunk's timer
\* resolves with null.
ProfileCaught(outcome) == TRUE

\* The profiles query of mapSessionToUser answers, or its timer (3 s / 2 s)
\* fires (outcome "timeout"); login / signup go on to setUser(appUser).
ProfileSettles(outcome) ==
  /\ authCall.pc = "profile"
  /\ IF ProfileCaught(outcome)
       THEN /\ authCall' =
                 [authCall EXCEPT
                    !.pc = "done", !.profile = outcome,
                    !.mapped = MapSessionToUser(authCall.authUser, outcome),
                    !.result = Resolved(Payload("value"))]
            /\ user' = MapSessionToUser(authCall.authUser, outcome)
            /\ authError' = IF impl = "redux" THEN None ELSE authError
       ELSE /\ authCall' = [authCall EXCEPT
                              !.pc = "done", !.profile = outcome,
                              !.result = Rejected(Payload("UNKNOWN_ERROR"))]
            /\ authError' = AuthFailed("UNKNOWN_ERROR")
            /\ UNCHANGED user
  /\ LoginFrame

\* The backend has signed the account in: the auth client notifies the
\* subscribed onAuthStateChange callback, once.
SignInNotified(i) ==
  /\ authCall.backendUser # None
  /\ ~authCall.notified
  /\ Notify(i, "SIGNED_IN", authCall.backendUser)
  /\ authCall' = [authCall EXCEPT !.notified = TRUE]
  /\ UNCHANGED <<authCalls, attempts>>

LoginIdle ==
  /\ authCall = NoAuthCall
  /\ authCalls = 0
  /\ attempts = [kind \in AuthKinds |-> [email \in Emails |-> 0]]

LoginNext ==
  \/ \E kind \in AuthKinds, email \in Addresses, formValid \in BOOLEAN :
       AuthCall(kind, email, formValid)
  \/ \E outcome \in AuthOutcomes : AuthSettles(outcome)
  \/ AuthTimeout
  \/ \E outcome \in AuthOutcomes : LateAuthSettles(outcome)
  \/ \E outcome \in CallOutcomes \cup {"timeout"} : InsertSettles(outcome)
  \/ \E outcome \in ProfileOutcomes \cup {"timeout"} : ProfileSettles(outcome)
  \/ \E i \in Slots : SignInNotified(i)
  \/ \E i \in Slots, outcome \in ProfileOutcomes : EventProfileSettles(i, outcome)
  \/ \E i \in Slots : EventProfileTimeout(i)

(***************************************************************************)
(* handleError                                                             *)
(***************************************************************************)

ErrorCodes ==
  {"NETWORK_ERROR", "AUTHENTICATION_ERROR", "AUTHORIZATION_ERROR",
   "VALIDATION_ERROR", "NOT_FOUND", "RATE_LIMITED", "SERVER_ERROR",
   "UNKNOWN_ERROR", "CONFIGURATION_ERROR"}

\* A property of the caught value: absent, a string or a number (written in
\* digits).
Absent == [type |-> "absent", value |-> ""]
Str(s) == [type |-> "string", value |-> s]
Num(digits) == [type |-> "number", value |-> digits]

CodeFields ==
  {Absent} \cup {Str(s) : s \in {"invalid_credentials", "user_not_found",
                                 "22P02", "PGRST301", "401", "PGRST204", "403",
                                 "PGRST116", "429", "23505", "500", "42P01",
                                 "VALIDATION_ERROR", ""}}
           \cup {Num(n) : n \in {"0", "400", "500"}}

StatusFields == {Absent, Num("0"), Num("400"), Num("401"), Num("500")}

Messages ==
  {"", "Invalid login credentials", "JWT expired", "permission denied",
   "Rate limit exceeded", "duplicate key value", "Internal server error",
   "Network request failed", "Failed to fetch", "Email not confirmed"}

Contexts == {None, "post"}

\* The values a catch block can hold: an Error instance, a plain object, or
\* something that is no object (a string, undefined, null).
ErrorValues ==
  {e \in [kind : {"Error", "object", "other"}, code : CodeFields,
          status : StatusFields, message : Messages] :
     e.kind = "other" => (e.code = Absent /\ e.status = Absent /\ e.message = "")}

\* JavaScript truthiness of a property.
Truthy(field) ==
  /\ field.type # "absent"
  /\ ~(field.type = "string" /\ field.value = "")
  /\ ~(field.type = "number" /\ field.value = "0")

\* error?.code || error?.status
CodeOrStatus(error) == IF Truthy(error.code) THEN error.code ELSE error.status

\* code === '...'
Is(code, s) == code.type = "string" /\ code.value = s

\* The words mapSupabaseErrorCode looks for that message.toLowerCase()
\* contains.
Marks(message) ==
  IF message = "Invalid login credentials" THEN {"invalid login credentials"}
  ELSE IF message = "JWT expired" THEN {"jwt"}
  ELSE IF message = "permission denied" THEN {"permission"}
  ELSE IF message = "Rate limit exceeded" THEN {"rate limit"}
  ELSE IF message = "duplicate key value" THEN {"duplicate"}
  ELSE IF message = "Internal server error" THEN {"server error"}
  ELSE IF message = "Network request failed" THEN {"network"}
  ELSE IF message = "Failed to fetch" THEN {"fetch"}
  ELSE {}

Includes(message, word) == word \in Marks(message)

\* code?.startsWith('5') has no value when code is a number: a TypeError.
StartsWithThrows(code) == code.type = "number"

StartsWith5(code) == code.type = "string" /\ code.value \in {"500"}

\* mapSupabaseErrorCode(error): the code it returns, "TypeError" when it
\* throws.
mapSupabaseErrorCode(error) ==
  LET code == CodeOrStatus(error)
      message == error.message
  IN  IF Is(code, "invalid_credentials")
           \/ Includes(message, "invalid login credentials")
        THEN "AUTHENTICATION_ERROR"
      ELSE IF Is(code, "user_not_found") \/ Is(code, "22P02") THEN "NOT_FOUND"
      ELSE IF Is(code, "PGRST301") \/ Is(code, "401") \/ Includes(message, "jwt")
        THEN "AUTHENTICATION_ERROR"
      ELSE IF Is(code, "PGRST204") \/ Is(code, "403")
                \/ Includes(message, "permission")
        THEN "AUTHORIZATION_ERROR"
      ELSE IF Is(code, "PGRST116") THEN "NOT_FOUND"
      ELSE IF Is(code, "429") \/ Includes(message, "rate limit")
        THEN "RATE_LIMITED"
      ELSE IF Is(code, "23505") \/ Includes(message, "duplicate")
                \/ Includes(message, "unique")
        THEN "VALIDATION_ERROR"
      ELSE IF StartsWithThrows(code) THEN "TypeError"
      ELSE IF StartsWith5(code) \/ Includes(message, "server error")
        THEN "SERVER_ERROR"
      ELSE IF Includes(message, "network") \/ Includes(message, "fetch")
        THEN "NETWORK_ERROR"
      ELSE "UNKNOWN_ERROR"

\* getUserMessage(code, context)
getUserMessage(code, context) ==
  IF code = "NETWORK_ERROR"
    THEN "Unable to connect to the server. Please check your internet connection."
  ELSE IF code = "AUTHENTICATION_ERROR"
    THEN "Invalid email or password. Please try again."
  ELSE IF code = "AUTHORIZATION_ERROR"
    THEN "You do not have permission to perform this action."
  ELSE IF code = "VALIDATION_ERROR"
    THEN "The data provided is invalid. Please check your input."
  ELSE IF code = "NOT_FOUND"
    THEN IF context # None THEN "The " \o context \o " was not found."
         ELSE "The requested resource was not found."
  ELSE IF code = "RATE_LIMITED"
    THEN "Too many requests. Please wait a moment and try again."
  ELSE IF code = "SERVER_ERROR"
    THEN "Something went wrong on our end. Please try again later."
  ELSE IF code = "CONFIGURATION_ERROR"
    THEN "The application is not properly configured. Please contact support."
  ELSE "An unexpected error occurred. Please try again."

NotHandled == [state |-> "none", code |-> None, userMessage |-> ""]
Returned(code, context) ==
  [state |-> "returned", code |-> code,
   userMessage |-> getUserMessage(code, context)]
Threw == [state |-> "threw", code |-> None, userMessage |-> ""]

\* Whether handleError asks mapSupabaseErrorCode: an Error instance that
\* has a code or status property, or any other object.
Mapped(error) ==
  \/ error.kind = "Error" /\ (error.code # Absent \/ error.status # Absent)
  \/ error.kind = "object"

\* handleError(error, context): the AppError it returns, or Threw.
handleError(error, context) ==
  IF ~Mapped(error) THEN Returned("UNKNOWN_ERROR", context)
  ELSE IF mapSupabaseErrorCode(error) = "TypeError" THEN Threw
  ELSE Returned(mapSupabaseErrorCode(error), context)

\* A catch block passes its error to handleError.
HandleError ==
  /\ appError = NotHandled
  /\ appError' = handleError(raised.error, raised.context)
  /\ UNCHANGED raised
  /\ UNCHANGED <<rlVars, wtVars, cfgVars, authVars, svcVars, likeVars, postVars, loginVars, sweepVars, sliceVars, countVars, flowVars>>

\* The next error is caught.
Catch(error, context) ==
  /\ appError # NotHandled
  /\ raised' = [error |-> error, context |-> context]
  /\ appError' = NotHandled
  /\ UNCHANGED <<rlVars, wtVars, cfgVars, authVars, svcVars, likeVars, postVars, loginVars, sweepVars, sliceVars, countVars, flowVars>>

ErrorsIdle ==
  /\ raised = [error |-> [kind |-> "other", code |-> Absent, status |-> Absent,
                          message |-> ""],
               context |-> None]
  /\ appError = NotHandled

ErrorsNext ==
  \/ HandleError
  \/ \E error \in ErrorValues, context \in Contexts : Catch(error, context)

(***************************************************************************)
(* postsSlice (store/slices/postsSlice.ts) and PostDetailPage.loadPost     *)
(***************************************************************************)

\* How many thunks and page loads one behaviour starts.
MaxDispatches == 3

\* How many entries a list of the store holds.
MaxList == 2

ThunkSlots == 1..2

CommentIds == {"c1", "c2"}

Q(id) == [id |-> id, title |-> "draft", likeCount |-> 0]
Edited(id) == [id |-> id, title |-> "edited", likeCount |-> 0]
Null == [id |-> None, title |-> "", likeCount |-> 0]

PostLists == {<<>>, <<Q("p1")>>, <<Q("p2"), Q("p1")>>}
CommentLists == {<<>>, <<"c1">>, <<"c2", "c1">>}

LoadingThunks == {"fetchAllPosts", "fetchPostById", "createPost"}

PostThunks ==
  LoadingThunks \cup
    {"fetchUserPosts", "updatePost", "deletePost", "toggleLike",
     "toggleBookmark", "fetchUserBookmarks", "fetchComments", "addComment",
     "deleteComment"}

\* The loads that put one post into view state.
Loads == {"fetchPostById", "loadPost"}

ThunkKinds == PostThunks \cup {"loadPost"}

NoThunk == [kind |-> None, arg |-> None]

NoAction == [kind |-> None, phase |-> None]

initialState ==
  [posts |-> <<>>, userPosts |-> <<>>, currentPost |-> Null, bookmarks |-> <<>>,
   comments |-> <<>>, isLoading |-> FALSE, error |-> None]

\* The arguments a thunk is dispatched with.
Args(kind) ==
  IF kind \in Loads \cup {"toggleLike", "toggleBookmark", "updatePost", "deletePost"}
    THEN PostIds
  ELSE IF kind = "deleteComment" THEN CommentIds
  ELSE {None}

Ids(list) == {list[i].id : i \in DOMAIN list}

Members(list) == {list[i] : i \in DOMAIN list}

\* What the payload creator returns when PostService answers.
Payloads(kind, arg, s) ==
  IF kind \in {"fetchAllPosts", "fetchUserPosts", "fetchUserBookmarks"}
    THEN PostLists
  ELSE IF kind \in Loads THEN {Q(arg), Null}
  ELSE IF kind = "createPost"
    THEN {Q(id) : id \in PostIds \ (Ids(s.posts) \cup Ids(s.userPosts))}
  ELSE IF kind = "updatePost" THEN {Edited(arg), Null}
  ELSE IF kind = "toggleLike"
    THEN {[postId |-> arg, likeCount |-> n] : n \in {0, 1}}
  ELSE IF kind = "toggleBookmark"
    THEN {[postId |-> arg, isBookmarked |-> b] : b \in BOOLEAN}
  ELSE IF kind = "fetchComments" THEN CommentLists
  ELSE IF kind = "addComment" THEN (CommentIds \ Members(s.comments)) \cup {None}
  ELSE {arg}

\* state.posts.unshift(x)
Unshift(list, x) == <<x>> \o list

\* list.filter((p) => p.id !== id)
WithoutId(list, id) == SelectSeq(list, LAMBDA p : p.id # id)

\* findIndex((p) => p.id === post.id), -1 written as 0
FindIndex(list, id) ==
  IF id \in Ids(list)
    THEN CHOOSE i \in DOMAIN list :
           list[i].id = id /\ \A j \in 1..(i - 1) : list[j].id # id
  ELSE 0

\* if (index !== -1) list[index] = post
PutAt(list, post) ==
  IF FindIndex(list, post.id) = 0 THEN list
  ELSE [list EXCEPT ![FindIndex(list, post.id)] = post]

\* const post = list.find(...); if (post) post.likeCount = likeCount
Liked(list, id, likeCount) ==
  IF FindIndex(list, id) = 0 THEN list
  ELSE [list EXCEPT ![FindIndex(list, id)].likeCount = likeCount]

\* addCase(thunk.pending, ...)
PendingReducer(kind, s) ==
  IF kind \in LoadingThunks THEN [s EXCEPT !.isLoading = TRUE] ELSE s

\* A rejected case that also throws the posts away
RejectedClears(kind, s, message) ==
  IF kind \in LoadingThunks
    THEN [s EXCEPT !.isLoading = FALSE, !.error = message, !.posts = <<>>]
  ELSE s

\* addCase(thunk.rejected, ...); the other thunks have no rejected case
RejectedReducer(kind, s, message) ==
  IF kind \in LoadingThunks
    THEN [s EXCEPT !.isLoading = FALSE, !.error = message]
  ELSE s

\* addCase(thunk.fulfilled, ...)
FulfilledReducer(kind, s, payload) ==
  IF kind = "fetchAllPosts"
    THEN [s EXCEPT !.posts = payload, !.isLoading = FALSE, !.error = None]
  ELSE IF kind = "fetchPostById"
    THEN [s EXCEPT !.currentPost = payload, !.isLoading = FALSE, !.error = None]
  ELSE IF kind = "fetchUserPosts" THEN [s EXCEPT !.userPosts = payload]
  ELSE IF kind = "createPost"
    THEN [s EXCEPT !.posts = Unshift(@, payload),
                   !.userPosts = Unshift(@, payload),
                   !.isLoading = FALSE, !.error = None]
  ELSE IF kind = "updatePost"
    THEN IF payload = Null THEN s
         ELSE [s EXCEPT !.posts = PutAt(@, payload),
                        !.userPosts = PutAt(@, payload),
                        !.currentPost = IF @.id = payload.id THEN payload ELSE @]
  ELSE IF kind = "deletePost"
    THEN [s EXCEPT !.posts = WithoutId(@, payload),
                   !.userPosts = WithoutId(@, payload)]
  ELSE IF kind = "toggleLike"
    THEN [s EXCEPT !.posts = Liked(@, payload.postId, payload.likeCount),
                   !.currentPost =
                      IF @.id = payload.postId
                        THEN [@ EXCEPT !.likeCount = payload.likeCount]
                      ELSE @]
  ELSE IF kind = "fetchUserBookmarks" THEN [s EXCEPT !.bookmarks = payload]
  ELSE IF kind = "toggleBookmark"
    THEN IF payload.isBookmarked THEN s
         ELSE [s EXCEPT !.bookmarks = WithoutId(@, payload.postId)]
  ELSE IF kind = "fetchComments" THEN [s EXCEPT !.comments = payload]
  ELSE IF kind = "addComment"
    THEN IF payload = None THEN s
         ELSE [s EXCEPT !.comments = Unshift(@, payload)]
  ELSE IF kind = "deleteComment"
    THEN [s EXCEPT !.comments = SelectSeq(@, LAMBDA c : c # payload)]
  ELSE s

\* Whether a list of the store has room for the entry a thunk may add.
Room(kind, s) ==
  /\ kind = "createPost" =>
       Len(s.posts) < MaxList /\ Len(s.userPosts) < MaxList
  /\ kind = "addComment" => Len(s.comments) < MaxList

\* dispatch(thunk(arg)), or PostDetailPage's effect calling loadPost for the
\* id of the route: the request leaves and the pending case runs.
Dispatch(slot, kind, arg) ==
  /\ dispatches < MaxDispatches
  /\ thunks[slot] = NoThunk
  /\ thunks' = [thunks EXCEPT ![slot] = [kind |-> kind, arg |-> arg]]
  /\ dispatches' = dispatches + 1
  /\ slice' = IF kind \in PostThunks THEN PendingReducer(kind, slice) ELSE slice
  /\ view' = IF kind = "loadPost" THEN [view EXCEPT !.isLoading = TRUE] ELSE view
  /\ lastAction' = [kind |-> kind, phase |-> "pending"]
  /\ latest' = IF kind \in Loads
                 THEN [latest EXCEPT ![kind] = [id |-> arg, outcome |-> "pending"]]
               ELSE latest
  /\ UNCHANGED <<rlVars, wtVars, cfgVars, authVars, svcVars, likeVars, postVars, loginVars, errVars, sweepVars, countVars, flowVars>>

\* What a settled load leaves in the history: the outcome of the load asked
\* for last.
LoadSettled(thunk, outcome) ==
  IF thunk.kind \in Loads /\ latest[thunk.kind].id = thunk.arg
       /\ latest[thunk.kind].outcome = "pending"
    THEN [latest EXCEPT ![thunk.kind].outcome = outcome]
  ELSE latest

\* PostService answers: the fulfilled case runs; the page keeps the post
\* getPostById found.
Fulfil(slot) ==
  /\ thunks[slot] # NoThunk
  /\ Room(thunks[slot].kind, slice)
  /\ \E payload \in Payloads(thunks[slot].kind, thunks[slot].arg, slice) :
       /\ slice' = FulfilledReducer(thunks[slot].kind, slice, payload)
       /\ view' = IF thunks[slot].kind = "loadPost"
                    THEN [post |-> IF payload = Null THEN view.post
                                   ELSE payload.id,
                          isLoading |-> FALSE]
                  ELSE view
       /\ latest' = LoadSettled(thunks[slot],
                                IF thunks[slot].kind \in Loads /\ payload # Null
                                  THEN "post" ELSE "other")
  /\ thunks' = [thunks EXCEPT ![slot] = NoThunk]
  /\ lastAction' = [kind |-> thunks[slot].kind, phase |-> "fulfilled"]
  /\ UNCHANGED dispatches
  /\ UNCHANGED <<rlVars, wtVars, cfgVars, authVars, svcVars, likeVars, postVars, loginVars, errVars, sweepVars, countVars, flowVars>>

\* PostService throws: rejectWithValue(error.message), the rejected case
\* runs; the page's catch block leaves for the feed.
Reject(slot) ==
  /\ thunks[slot] # NoThunk
  /\ thunks' = [thunks EXCEPT ![slot] = NoThunk]
  /\ slice' = IF thunks[slot].kind \in PostThunks
                THEN RejectedReducer(thunks[slot].kind, slice, "fetch failed")
              ELSE slice
  /\ view' = IF thunks[slot].kind = "loadPost"
               THEN [view EXCEPT !.isLoading = FALSE]
             ELSE view
  /\ lastAction' = [kind |-> thunks[slot].kind, phase |-> "rejected"]
  /\ latest' = LoadSettled(thunks[slot], "other")
  /\ UNCHANGED dispatches
  /\ UNCHANGED <<rlVars, wtVars, cfgVars, authVars, svcVars, likeVars, postVars, loginVars, errVars, sweepVars, countVars, flowVars>>

SliceIdle ==
  /\ slice = initialState
  /\ view = [post |-> None, isLoading |-> TRUE]
  /\ thunks = [slot \in ThunkSlots |-> NoThunk]
  /\ dispatches = 0
  /\ lastAction = NoAction
  /\ latest = [kind \in Loads |-> [id |-> None, outcome |-> "other"]]

SliceNext ==
  \/ \E slot \in ThunkSlots, kind \in ThunkKinds :
       \E arg \in Args(kind) : Dispatch(slot, kind, arg)
  \/ \E slot \in ThunkSlots : Fulfil(slot)
  \/ \E slot \in ThunkSlots : Reject(slot)

(***************************************************************************)
(* The shown shown by PostDetailPage and BlogFeed                         *)
(***************************************************************************)

Surfaces == {"PostDetailPage", "BlogFeed"}

\* count: 'exact' of the likes and of the comments of the post
LikesOf(t) == OtherLikes + (IF t.liked THEN 1 ELSE 0)

CommentsOf(t) == Cardinality(t.comments)

\* loadPost / loadPosts: every read that fails is replaced by its default,
\* getLikesCount(...).catch(() => 0), checkUserLiked(...).catch(() => false),
\* getCommentsCount(...).catch(() => 0).
loadCounts(countRead, likedRead, commentsRead) ==
  /\ shown' = [shown EXCEPT
       !.loaded = TRUE,
       !.likeCount = IF countRead THEN LikesOf(table) ELSE 0,
       !.isLiked = IF likedRead THEN table.liked ELSE FALSE,
       !.commentCount = IF commentsRead THEN CommentsOf(table) ELSE 0]
  /\ UNCHANGED table
  /\ UNCHANGED <<rlVars, wtVars, cfgVars, authVars, svcVars, likeVars, postVars, loginVars, errVars, sweepVars, sliceVars, flowVars>>

\* handleLike: removeLike or addLike by the flag of the component, then the
\* flag and prev - 1 or prev + 1; a failed request changes nothing.
handleLike(answer) ==
  /\ shown.loaded
  /\ IF answer # "ok" \/ (~shown.isLiked /\ table.liked)
       THEN UNCHANGED <<shown, table>>
     ELSE /\ table' = [table EXCEPT !.liked = ~shown.isLiked]
          /\ shown' = [shown EXCEPT
               !.isLiked = ~@,
               !.likeCount = IF shown.isLiked THEN @ - 1 ELSE @ + 1]
  /\ UNCHANGED <<rlVars, wtVars, cfgVars, authVars, svcVars, likeVars, postVars, loginVars, errVars, sweepVars, sliceVars, flowVars>>

\* handleToggleComments: opening the section loads the list.
handleToggleComments(answer) ==
  /\ shown.loaded
  /\ shown.surface = "PostDetailPage"
  /\ shown' = [shown EXCEPT
       !.showComments = ~@,
       !.comments = IF ~shown.showComments /\ answer = "ok"
                      THEN table.comments ELSE @]
  /\ UNCHANGED table
  /\ UNCHANGED <<rlVars, wtVars, cfgVars, authVars, svcVars, likeVars, postVars, loginVars, errVars, sweepVars, sliceVars, flowVars>>

\* handleSubmitComment: the new comment heads the list, prev + 1.
handleSubmitComment(id, answer) ==
  /\ shown.loaded
  /\ shown.surface = "PostDetailPage"
  /\ id \notin table.comments
  /\ IF answer # "ok" THEN UNCHANGED <<shown, table>>
     ELSE /\ table' = [table EXCEPT !.comments = @ \cup {id}]
          /\ shown' = [shown EXCEPT !.comments = @ \cup {id},
                                      !.commentCount = @ + 1]
  /\ UNCHANGED <<rlVars, wtVars, cfgVars, authVars, svcVars, likeVars, postVars, loginVars, errVars, sweepVars, sliceVars, flowVars>>

\* handleDeleteComment of a comment in the list: filter, prev - 1.
handleDeleteComment(id, answer) ==
  /\ shown.loaded
  /\ shown.surface = "PostDetailPage"
  /\ shown.showComments
  /\ id \in shown.comments
  /\ IF answer # "ok" THEN UNCHANGED <<shown, table>>
     ELSE /\ table' = [table EXCEPT !.comments = @ \ {id}]
          /\ shown' = [shown EXCEPT !.comments = @ \ {id},
                                      !.commentCount = @ - 1]
  /\ UNCHANGED <<rlVars, wtVars, cfgVars, authVars, svcVars, likeVars, postVars, loginVars, errVars, sweepVars, sliceVars, flowVars>>

CountsIdle ==
  /\ shown = [surface |-> "PostDetailPage", loaded |-> FALSE, isLiked |-> FALSE,
               likeCount |-> 0, comments |-> {}, commentCount |-> 0,
               showComments |-> FALSE]
  /\ table = [liked |-> FALSE, comments |-> {}]

CountsNext ==
  \/ \E countRead \in BOOLEAN, likedRead \in BOOLEAN, commentsRead \in BOOLEAN :
       loadCounts(countRead, likedRead, commentsRead)
  \/ \E answer \in PostAnswers : handleLike(answer)
  \/ \E answer \in PostAnswers : handleToggleComments(answer)
  \/ \E id \in CommentIds, answer \in PostAnswers : handleSubmitComment(id, answer)
  \/ \E id \in CommentIds, answer \in PostAnswers : handleDeleteComment(id, answer)

(***************************************************************************)
(* PostEditor: Save Draft and Publish with the backend call in flight      *)
(***************************************************************************)

\* How many times the buttons are clicked in one behaviour.
MaxClicks == 3

NoSaveCall == [pc |-> "idle", via |-> None, op |-> None, outcome |-> None]

\* if (id) updatePost(...) else createPost(...), with the id of the render
\* the click belongs to
SaveOp == IF flow.route.id # None THEN "update" ELSE "create"

\* The editor is on screen and the modal dialog does not cover the buttons.
ButtonsReachable ==
  /\ flow.route.page = "editor"
  /\ ~flow.showPublishModal
  /\ flow.clicks < MaxClicks

\* handleSave up to its await: setIsSaving(true) and the request.
StartSave(i, via) ==
  /\ saves[i].pc = "idle"
  /\ saves' = [saves EXCEPT ![i] =
       [pc |-> "backend", via |-> via, op |-> SaveOp, outcome |-> None]]

\* Save Draft: onClick={() => handleSave(true)}, disabled={isSaving}
ClickSaveDraft(i) ==
  /\ ButtonsReachable
  /\ ~flow.isSaving
  /\ StartSave(i, "draft")
  /\ flow' = [flow EXCEPT
       !.isSaving = TRUE,
       !.clicks = @ + 1,
       !.createCalls = IF SaveOp = "create" THEN @ + 1 ELSE @]
  /\ UNCHANGED <<rlVars, wtVars, cfgVars, authVars, svcVars, likeVars, postVars, loginVars, errVars, sweepVars, sliceVars, countVars>>

\* Publish: onClick={handlePublish}; the modal opens on 'uploading' and
\* handleSave(false, true, true) starts.
ClickPublish(i) ==
  /\ ButtonsReachable
  /\ StartSave(i, "publish")
  /\ flow' = [flow EXCEPT
       !.isSaving = TRUE,
       !.showPublishModal = TRUE,
       !.publishStep = "uploading",
       !.clicks = @ + 1,
       !.createCalls = IF SaveOp = "create" THEN @ + 1 ELSE @]
  /\ UNCHANGED <<rlVars, wtVars, cfgVars, authVars, svcVars, likeVars, postVars, loginVars, errVars, sweepVars, sliceVars, countVars>>

\* What handleSave hands to its caller when the backend call threw: its
\* catch block shows a toast (if asked to) and logs; nothing is rethrown.
SaveSettlement(answer) == "returned"

\* The toast of handleSave, shown only when showToast
SaveToast(via, answer) ==
  IF via # "draft" THEN flow.toast
  ELSE IF answer = "ok" THEN "Draft saved" ELSE "Failed to save post"

\* createPost / updatePost settles: the rest of handleSave, and for Publish
\* the continuation of handlePublish after its await.
SaveSettles(i, answer) ==
  /\ saves[i].pc = "backend"
  /\ saves' = [saves EXCEPT ![i] =
       IF saves[i].via = "draft" THEN NoSaveCall
       ELSE [@ EXCEPT !.outcome = answer,
                      !.pc = IF SaveSettlement(answer) = "returned"
                               THEN "saving" ELSE "idle"]]
  /\ flow' = [flow EXCEPT
       !.isSaving = FALSE,
       !.created = IF answer = "ok" /\ saves[i].op = "create" THEN @ + 1 ELSE @,
       !.route = IF answer = "ok" /\ saves[i].op = "create"
                   THEN [page |-> "editor", id |-> NewId] ELSE @,
       !.toast = IF saves[i].via = "publish"
                      /\ SaveSettlement(answer) = "thrown"
                   THEN "Failed to publish post"
                 ELSE SaveToast(saves[i].via, answer),
       !.publishStep = IF saves[i].via = "publish"
                            /\ SaveSettlement(answer) = "returned"
                         THEN "saving" ELSE @,
       !.showPublishModal = IF saves[i].via = "publish"
                                 /\ SaveSettlement(answer) = "thrown"
                              THEN FALSE ELSE @]
  /\ UNCHANGED <<rlVars, wtVars, cfgVars, authVars, svcVars, likeVars, postVars, loginVars, errVars, sweepVars, sliceVars, countVars>>

\* setTimeout(..., 500): setPublishStep('done')
PublishDone(i) ==
  /\ saves[i].pc = "saving"
  /\ saves' = [saves EXCEPT ![i].pc = "done"]
  /\ flow' = [flow EXCEPT !.publishStep = "done"]
  /\ UNCHANGED <<rlVars, wtVars, cfgVars, authVars, svcVars, likeVars, postVars, loginVars, errVars, sweepVars, sliceVars, countVars>>

\* setTimeout(..., 2000): setShowPublishModal(false); navigate('/dashboard')
PublishRedirect(i) ==
  /\ saves[i].pc = "done"
  /\ saves' = [saves EXCEPT ![i].pc = "left"]
  /\ flow' = [flow EXCEPT !.showPublishModal = FALSE,
                          !.route = [page |-> "dashboard", id |-> None]]
  /\ UNCHANGED <<rlVars, wtVars, cfgVars, authVars, svcVars, likeVars, postVars, loginVars, errVars, sweepVars, sliceVars, countVars>>

FlowIdle ==
  /\ flow = [route |-> [page |-> "editor", id |-> None], isSaving |-> FALSE,
             showPublishModal |-> FALSE, publishStep |-> "uploading",
             toast |-> None, clicks |-> 0, createCalls |-> 0, created |-> 0]
  /\ saves = [i \in Tasks |-> NoSaveCall]

FlowNext ==
  \/ \E i \in Tasks : ClickSaveDraft(i)
  \/ \E i \in Tasks : ClickPublish(i)
  \/ \E i \in Tasks, answer \in PostAnswers : SaveSettles(i, answer)
  \/ \E i \in Tasks : PublishDone(i)
  \/ \E i \in Tasks : PublishRedirect(i)

(***************************************************************************)
(* Specifications                                                          *)
(***************************************************************************)

\* The rate limiter and withTimeout alone, the backend configured.
Init ==
  /\ RateInit
  /\ TimeoutIdle
  /\ configured = TRUE
  /\ placeholderCalls = {}
  /\ impl = "context"
  /\ AuthIdle
  /\ svcImpl = "secured"
  /\ call = NoCallInProgress
  /\ LikesIdle
  /\ PostsIdle
  /\ LoginIdle
  /\ ErrorsIdle
  /\ SweepIdle
  /\ SliceIdle
  /\ CountsIdle
  /\ FlowIdle

SpecRate == Init /\ [][RateNext]_vars

\* The user has made `used` requests under every key in the minute that is
\* about to end.
BusyMinute(used) ==
  /\ now = RATE_LIMIT_WINDOW_MS - 500
  /\ rateLimitStore =
       [id \in RateKeys |-> [count |-> used, resetTime |-> RATE_LIMIT_WINDOW_MS]]
  /\ rlLast = NoCall
  /\ winStart = [id \in RateKeys |-> 0]
  /\ winCalls = [id \in RateKeys |-> used]

\* Every key holds a record of the minute that is about to end; one caller
\* goes on calling while records expire and are cleaned up.
InitSweep ==
  /\ BusyMinute(RATE_LIMIT_MAX_REQUESTS - 1)
  /\ TimeoutIdle
  /\ configured = TRUE
  /\ placeholderCalls = {}
  /\ impl = "context"
  /\ AuthIdle
  /\ svcImpl = "secured"
  /\ call = NoCallInProgress
  /\ LikesIdle
  /\ PostsIdle
  /\ LoginIdle
  /\ ErrorsIdle
  /\ SweepIdle
  /\ SliceIdle
  /\ CountsIdle
  /\ FlowIdle

SpecSweep == InitSweep /\ [][SweepNext]_vars

SpecTimeout == Init /\ [][TimeoutNext]_vars

\* Either auth container, configured or not, from before its mount.
InitAuth ==
  /\ RateInit
  /\ TimeoutIdle
  /\ configured \in BOOLEAN
  /\ placeholderCalls = {}
  /\ impl \in {"context", "redux"}
  /\ AuthIdle
  /\ svcImpl = "secured"
  /\ call = NoCallInProgress
  /\ LikesIdle
  /\ PostsIdle
  /\ LoginIdle
  /\ ErrorsIdle
  /\ SweepIdle
  /\ SliceIdle
  /\ CountsIdle
  /\ FlowIdle

\* Timers fire and the effect runs; the backend owes no answer.
AuthFairness ==
  /\ WF_vars(Mount)
  /\ WF_vars(BootSessionTimeout)
  /\ WF_vars(BootProfileTimeout)
  /\ WF_vars(Failsafe)

SpecAuth == InitAuth /\ [][AuthNext]_vars /\ AuthFairness

\* Either generation of PostService, configured or not, one request short
\* of every rate limit.
InitService ==
  /\ BusyMinute(RATE_LIMIT_MAX_REQUESTS - 1)
  /\ TimeoutIdle
  /\ configured \in BOOLEAN
  /\ placeholderCalls = {}
  /\ impl = "context"
  /\ AuthIdle
  /\ svcImpl \in {"secured", "legacy"}
  /\ call = NoCallInProgress
  /\ LikesIdle
  /\ PostsIdle
  /\ LoginIdle
  /\ ErrorsIdle
  /\ SweepIdle
  /\ SliceIdle
  /\ CountsIdle
  /\ FlowIdle

SpecService == InitService /\ [][ServiceNext]_vars

\* A signed-in user on a loaded page who has neither liked nor bookmarked
\* the post, LikeBudget requests short of the rate limits.
InitLikes ==
  /\ BusyMinute(RATE_LIMIT_MAX_REQUESTS - LikeBudget)
  /\ TimeoutIdle
  /\ configured = TRUE
  /\ placeholderCalls = {}
  /\ impl = "context"
  /\ AuthIdle
  /\ svcImpl = "secured"
  /\ call = NoCallInProgress
  /\ db = [likes |-> 0, bookmarks |-> 0, others |-> OtherLikes]
  /\ page = [isLiked |-> FALSE, likeCount |-> OtherLikes, isBookmarked |-> FALSE]
  /\ storeLikeCount = Unset
  /\ toggles = [i \in Tasks |-> NoToggle]
  /\ PostsIdle
  /\ LoginIdle
  /\ ErrorsIdle
  /\ SweepIdle
  /\ SliceIdle
  /\ CountsIdle
  /\ FlowIdle

SpecLikes == InitLikes /\ [][LikesNext]_vars

\* The secured PostService or PostStore, one createPost short of the rate
\* limit; with the service somebody else's post is in the table.
InitPosts ==
  /\ BusyMinute(RATE_LIMIT_MAX_REQUESTS - 1)
  /\ TimeoutIdle
  /\ configured = TRUE
  /\ placeholderCalls = {}
  /\ impl = "context"
  /\ AuthIdle
  /\ svcImpl = "secured"
  /\ call = NoCallInProgress
  /\ LikesIdle
  /\ postImpl \in PostImpls
  /\ posts = [id \in PostIds |->
                IF id # NewId /\ postImpl = "service" THEN ForeignPost
                ELSE NoPost]
  /\ editor = ClosedEditor
  /\ lastSave = NoSave
  /\ LoginIdle
  /\ ErrorsIdle
  /\ SweepIdle
  /\ SliceIdle
  /\ CountsIdle
  /\ FlowIdle

SpecPosts == InitPosts /\ [][PostsNext]_vars

\* Either auth container, mounted and past its bootstrap with nobody signed
\* in; one request short of every rate limit, the signups so far all made
\* under a@x.io.
InitLogin ==
  /\ BusyMinute(RATE_LIMIT_MAX_REQUESTS - 1)
  /\ TimeoutIdle
  /\ configured \in BOOLEAN
  /\ placeholderCalls = {}
  /\ impl \in {"context", "redux"}
  /\ lifecycle = "mounted"
  /\ user = NoUser
  /\ isLoading = FALSE
  /\ authError = None
  /\ boot = [pc |-> "done", sessionUser |-> None]
  /\ failsafe = IF impl = "redux" THEN "fired" ELSE "unset"
  /\ events = [i \in Slots |-> [pc |-> "unused", sessionUser |-> None]]
  /\ logoutPc = "idle"
  /\ signedOut = FALSE
  /\ svcImpl = "secured"
  /\ call = NoCallInProgress
  /\ LikesIdle
  /\ PostsIdle
  /\ authCall = NoAuthCall
  /\ authCalls = 0
  /\ attempts = [kind \in AuthKinds |-> [email \in Emails |->
                   IF kind = "signup" /\ email # "a@x.io" THEN 0
                   ELSE RATE_LIMIT_MAX_REQUESTS - 1]]
  /\ ErrorsIdle
  /\ SweepIdle
  /\ SliceIdle
  /\ CountsIdle
  /\ FlowIdle

SpecLogin == InitLogin /\ [][LoginNext]_vars

\* Thunks of the posts slice and loads of the post page, up to two at a time.
SpecSlice == Init /\ [][SliceNext]_vars

\* A signed-in reader on either surface; the post already has likes and
\* comments, the reader's own among them or not.
InitCounts ==
  /\ RateInit
  /\ TimeoutIdle
  /\ configured = TRUE
  /\ placeholderCalls = {}
  /\ impl = "context"
  /\ AuthIdle
  /\ svcImpl = "secured"
  /\ call = NoCallInProgress
  /\ LikesIdle
  /\ PostsIdle
  /\ LoginIdle
  /\ ErrorsIdle
  /\ SweepIdle
  /\ SliceIdle
  /\ \E surface \in Surfaces :
       shown = [surface |-> surface, loaded |-> FALSE, isLiked |-> FALSE,
                 likeCount |-> 0, comments |-> {}, commentCount |-> 0,
                 showComments |-> FALSE]
  /\ table \in [liked : BOOLEAN, comments : SUBSET CommentIds]
  /\ FlowIdle

SpecCounts == InitCounts /\ [][CountsNext]_vars

\* The editor opened on /editor (a new post) or on /editor/:id with the
\* title and the content filled in.
InitFlow ==
  /\ RateInit
  /\ TimeoutIdle
  /\ configured = TRUE
  /\ placeholderCalls = {}
  /\ impl = "context"
  /\ AuthIdle
  /\ svcImpl = "secured"
  /\ call = NoCallInProgress
  /\ LikesIdle
  /\ PostsIdle
  /\ LoginIdle
  /\ ErrorsIdle
  /\ SweepIdle
  /\ SliceIdle
  /\ CountsIdle
  /\ \E id \in {None, NewId} :
       flow = [route |-> [page |-> "editor", id |-> id], isSaving |-> FALSE,
               showPublishModal |-> FALSE, publishStep |-> "uploading",
               toast |-> None, clicks |-> 0, createCalls |-> 0, created |-> 0]
  /\ saves = [i \in Tasks |-> NoSaveCall]

SpecFlow == InitFlow /\ [][FlowNext]_vars

\* One error after another goes through handleError.
SpecErrors == Init /\ [][ErrorsNext]_vars

(***************************************************************************)
(* Claims                                                                  *)
(***************************************************************************)

\* C1: the first RATE_LIMIT_MAX_REQUESTS calls of an identifier inside one
\* window are allowed; every further call inside that window is denied with
\* retryAfter > 0; a call made after the window has elapsed resets the
\* record's count to 1 and is allowed.
C1_WindowContract ==
  rlLast # NoCall =>
    /\ (winCalls[rlLast.id] <= RATE_LIMIT_MAX_REQUESTS => rlLast.allowed)
    /\ (winCalls[rlLast.id] > RATE_LIMIT_MAX_REQUESTS =>
          ~rlLast.allowed /\ rlLast.retryAfter > 0)
    /\ (rlLast.fresh => rlLast.allowed /\ rateLimitStore[rlLast.id].count = 1)

\* C2: withTimeout settles exactly once. Once the timer has fired or the
\* operation has settled the returned promise is settled, and it never
\* changes again; if the timer was first it is rejected with the message
\* carrying the label and the timeout, otherwise it is the operation's own
\* resolution or rejection, unchanged.
C2_SettlesOnce ==
  wtArgs # NoArgs =>
    /\ wtSettles <= 1
    /\ (wtFirst # "none" => wtResult.state # "pending" /\ wtSettles = 1)
    /\ (wtFirst = "none" => wtResult.state = "pending")
    /\ (wtFirst = "timer" =>
          /\ wtResult.state = "rejected"
          /\ wtResult.payload.kind = "timed out after"
          /\ wtResult.payload.operation = EffectiveLabel(wtArgs)
          /\ wtResult.payload.timeoutMs = EffectiveMs(wtArgs))
    /\ (wtFirst = "op" => wtResult = wtOp)

C4_LogoutClearsUser ==
  [][(logoutPc # "done" /\ logoutPc' = "done") => user' = NoUser]_vars

\* C5: once the listener has handled a sign-out and until a later sign-in
\* notification, the user is null, whatever profile resolutions were still
\* in flight.
C5_SignedOutStaysNull ==
  signedOut => user = NoUser

\* C2 witness: the timer fired first and the operation rejected afterwards;
\* the caller still holds the timeout error.
C2_Witness ==
  /\ wtFirst = "timer"
  /\ wtOp.state = "rejected"
  /\ wtResult.state = "rejected"
  /\ wtResult.payload # wtOp.payload

\* C6: for a user who has not liked the post, a like toggle adds exactly one
\* like record and raises the visible count by 1, and the toggle of a user
\* who has liked it removes the record and lowers the count by 1, so a pair
\* returns to the original count; for every toggle that ran alone and whose
\* backend requests were all answered without error.
C6_TogglePairs ==
  \A i \in Tasks :
    LET t == toggles[i] IN
    (t.pc = "done" /\ t.kind = "like" /\ ~t.overlapped /\ ~t.faulty) =>
      /\ ~t.had => (t.dRows = 1 /\ (t.based => t.dCount = 1))
      /\ t.had => (t.dRows = -1 /\ (t.based => t.dCount = -1))

C8_MutationsReject ==
  (call.pc = "settled" /\ call.op \in MutatingOps /\ call.thrown # None) =>
    call.result.state = "rejected"

\* C8 witness: a mutating operation of the secured service timed out and
\* its caller holds the rejection.
C8_Witness ==
  /\ svcImpl = "secured"
  /\ call.pc = "settled"
  /\ call.op = "deleteComment"
  /\ call.thrown = "timed out after"
  /\ call.result = Rejected(Payload("UNKNOWN_ERROR"))

\* C9: a decorative read never rejects; when its request failed or timed
\* out it returns the safe default.
C9_DecorativeNeverReject ==
  (call.pc = "settled" /\ call.op \in DecorativeOps) =>
    /\ call.result.state = "resolved"
    /\ call.thrown # None => call.result.payload.kind = "default"

\* C10: when the backend is not configured, every operation of the secured
\* service called with valid arguments ends rejected with CONFIGURATION_ERROR
\* and no request goes to the placeholder endpoint.
C10_FailsFast ==
  (svcImpl = "secured" /\ ~configured) =>
    /\ placeholderCalls = {}
    /\ (call.pc = "settled" /\ call.args.idsValid /\ call.args.contentValid) =>
          call.result = Rejected(Payload("CONFIGURATION_ERROR"))

\* The operations that take a post, user, author or comment identifier.
IdOps == Ops \ {"getAllPosts", "uploadImage"}

\* C11: an operation of the secured service that received an identifier
\* which is not a UUID ends rejected with VALIDATION_ERROR and has sent no
\* request to the backend.
C11_InvalidIdRejected ==
  (svcImpl = "secured" /\ configured /\ call.pc # "idle"
     /\ call.op \in IdOps /\ ~call.args.idsValid) =>
    /\ call.pc = "settled"
    /\ call.step = 0
    /\ call.result = Rejected(Payload("VALIDATION_ERROR"))

\* C12: a call that the secured service rejects with VALIDATION_ERROR
\* before any request leaves the rate-limit records as they were.
C12_ValidationConsumesNoQuota ==
  [][(svcImpl = "secured" /\ configured /\ call.pc = "idle"
        /\ call'.pc = "settled"
        /\ call'.result = Rejected(Payload("VALIDATION_ERROR")))
      => rateLimitStore' = rateLimitStore]_vars

\* C13: every stored post's readTime is max(1, ceil(words / 200)) over the
\* words of its stored content, whatever createPost and updatePost calls
\* were made.
C13_ReadTimeOfStoredContent ==
  \A id \in PostIds :
    posts[id].exists => posts[id].readTime = calculateReadTime(posts[id].content)

\* C14: a post the editor created with the excerpt field left empty is
\* stored with the first 200 characters of its stored content as excerpt.
C14_DefaultExcerpt ==
  (lastSave.op = "createPost" /\ lastSave.outcome = "ok"
     /\ ~lastSave.excerptTyped) =>
    posts[NewId].excerpt = Substring(posts[NewId].content, ExcerptLength)

\* A call that got as far as its backend request.
Sent(outcome) ==
  outcome \notin {None, "VALIDATION_ERROR", "CONFIGURATION_ERROR", "RATE_LIMITED"}

\* C15: the editor sends the update of an existing post to the backend only
\* after loadPost has found the signed-in user to be the post's author.
C15_SavesOnlyOwnPosts ==
  (lastSave.op = "updatePost" /\ Sent(lastSave.outcome)
     /\ lastSave.author # None) =>
    lastSave.confirmed /\ lastSave.author = Me

\* C19: once the effect cleanup of the store-backed container has run, no
\* continuation of the bootstrap or of a listener callback changes the user
\* or the loading flag.
C19_NoUpdateAfterTeardown ==
  [][(impl = "redux" /\ lifecycle = "unmounted"
        /\ (boot' # boot \/ events' # events))
      => (user' = user /\ isLoading' = isLoading)]_vars

\* C16: mapSessionToUser never rejects: whichever way the profiles query of
\* a login or signup ended (row, no row, error, rejection, timeout), the
\* call resolved with a user that has the id of the session.
C16_MappingNeverRejects ==
  authCall.profile # None =>
    /\ authCall.result.state = "resolved"
    /\ authCall.mapped.id = authCall.authUser

\* C16 witness: a login whose profiles query timed out has resolved and the
\* local user is the session's.
C16_Witness ==
  /\ authCall.kind = "login"
  /\ authCall.profile = "timeout"
  /\ authCall.result.state = "resolved"
  /\ user = [id |-> authCall.authUser, name |-> "default"]

C18_LimitPerAddress ==
  authCall.result = Rejected(Payload("RATE_LIMITED")) =>
    attempts[authCall.kind][authCall.email] > RATE_LIMIT_MAX_REQUESTS

\* C20: once a login or signup has been reported as timed out, the answer
\* its request gets later changes neither the result the caller holds nor
\* the local user.
C20_TimedOutStaysOut ==
  [][(authCall.timedOut /\ authCall'.timedOut) =>
       (authCall'.result = authCall.result /\ user' = user)]_vars

\* C21: every error handed to handleError comes back with exactly one of the
\* nine ErrorCode values, and its userMessage is the fixed message of that
\* value; only the NOT_FOUND message depends on the context noun.
C21_OneMemberFixedMessage ==
  appError # NotHandled =>
    /\ appError.code \in ErrorCodes
    /\ appError.userMessage = getUserMessage(appError.code, raised.context)
    /\ appError.code # "NOT_FOUND" =>
         appError.userMessage = getUserMessage(appError.code, None)

\* C26: handleError is total: whatever the error value and whatever the
\* shape of its code or status, it returns an AppError and never throws.
C26_NeverThrows == appError.state # "threw"

\* C22: every rate-limit record has 1 <= count <= RATE_LIMIT_MAX_REQUESTS, a
\* denied call leaves the store as it was, and no call beyond the
\* RATE_LIMIT_MAX_REQUESTS-th of a window is allowed.
C22_RecordBounds ==
  /\ [](\A id \in RateKeys :
          HasRecord(id) =>
            /\ rateLimitStore[id].count >= 1
            /\ rateLimitStore[id].count <= RATE_LIMIT_MAX_REQUESTS)
  /\ [](rlLast # NoCall /\ rlLast.allowed =>
          winCalls[rlLast.id] <= RATE_LIMIT_MAX_REQUESTS)
  /\ [][(winCalls' # winCalls /\ ~rlLast'.allowed) =>
          rateLimitStore' = rateLimitStore]_vars

\* A call is denied on a full record.
C22_Witness ==
  /\ rlLast # NoCall
  /\ ~rlLast.allowed
  /\ rateLimitStore[rlLast.id].count = RATE_LIMIT_MAX_REQUESTS
  /\ winCalls[rlLast.id] > RATE_LIMIT_MAX_REQUESTS

\* C23: with cleanupRateLimitStore running at any moment between checks,
\* every checkRateLimit call returns what the limiter without cleanup returns:
\* the same allowed and the same retryAfter.
C23_CleanupInvisible ==
  rlLast # NoCall =>
    /\ rlLast.allowed = plainLast.allowed
    /\ rlLast.retryAfter = plainLast.retryAfter

\* A call arrives for an identifier whose expired record cleanup has deleted.
C23_Witness == rlLast # NoCall /\ plainLast.swept /\ rlLast.allowed

\* C24: a rejected posts thunk leaves posts, userPosts, currentPost,
\* bookmarks and comments of the store unchanged; only isLoading and error
\* may change.
C24_RejectedKeepsData ==
  [][(lastAction'.phase = "rejected" /\ lastAction'.kind \in PostThunks
        /\ thunks' # thunks) =>
       /\ slice'.posts = slice.posts
       /\ slice'.userPosts = slice.userPosts
       /\ slice'.currentPost = slice.currentPost
       /\ slice'.bookmarks = slice.bookmarks
       /\ slice'.comments = slice.comments]_vars

\* A thunk is rejected while the store holds posts.
C24_Witness ==
  /\ lastAction.phase = "rejected"
  /\ lastAction.kind \in LoadingThunks
  /\ slice.error # None
  /\ slice.posts # <<>>

\* C28: when the loads of one kind have all settled and the load asked for
\* last brought a post, the post held in view state (PostDetailPage post,
\* Redux currentPost) is the one for the id asked for last.
C28_LatestLoadWins ==
  /\ ((\A slot \in ThunkSlots : thunks[slot].kind # "fetchPostById")
        /\ latest["fetchPostById"].outcome = "post") =>
       slice.currentPost.id = latest["fetchPostById"].id
  /\ ((\A slot \in ThunkSlots : thunks[slot].kind # "loadPost")
        /\ latest["loadPost"].outcome = "post") =>
       view.post = latest["loadPost"].id

\* C27: the like count and the comment count shown for a post are never
\* negative, whatever page loads, likes, unlikes, added and deleted comments
\* came before, a count read that failed and was defaulted to 0 included.
C27_CountsNotNegative == shown.likeCount >= 0 /\ shown.commentCount >= 0

\* C25: the publish flow shows step 'done' (and then redirects to the
\* dashboard) only if its createPost or updatePost call succeeded; after a
\* failed call the modal is closed and the failure is shown instead.
C25_DoneOnlyAfterSuccess ==
  \A i \in Tasks :
    (saves[i].via = "publish" /\ saves[i].pc \in {"done", "left"}) =>
      saves[i].outcome = "ok"

\* C30: for a new post no createPost call is issued while another one is in
\* flight, and at most one post is created, however Save Draft and Publish
\* are clicked during a save.
C30_OneCreate ==
  /\ Cardinality({i \in Tasks : saves[i].pc = "backend" /\ saves[i].op = "create"}) <= 1
  /\ flow.created <= 1

\* C29: saving a post that was loaded into the editor and not edited leaves
\* the stored title, excerpt and content as they were. The post is one whose
\* stored content and excerpt carry no white space at the end and whose
\* excerpt is not empty, so that neither trim() nor the default excerpt of
\* handleSave comes into play.
C29_LoadSaveKeepsPost ==
  [][(/\ editor.load = "confirmed"
      /\ posts[editor.id].exists
      /\ editor.form = [title |-> posts[editor.id].title,
                        content |-> posts[editor.id].content,
                        excerpt |-> posts[editor.id].excerpt]
      /\ Trim(editor.form.content) = editor.form.content
      /\ Trim(editor.form.excerpt) = editor.form.excerpt
      /\ editor.form.excerpt # Empty
      /\ lastSave'.op = "updatePost"
      /\ lastSave'.outcome = "ok") =>
       /\ posts'[editor.id].title = posts[editor.id].title
       /\ posts'[editor.id].excerpt = posts[editor.id].excerpt
       /\ posts'[editor.id].content = posts[editor.id].content]_vars
====
